---------------------------- MODULE Spec2Model ----------------------------
(***************************************************************************)
(* A model of lbry/wallet/server/db/elastic_search.py: the SearchIndex     *)
(* class (index writer, censorship applier, resolver with its two LRU      *)
(* caches, session dispatcher) and the module functions extract_doc,       *)
(* expand_query and expand_result.                                         *)
(*                                                                         *)
(* Text is a sequence of one-character strings, bytes are a sequence of    *)
(* numbers 0..255.  A claim hash has HashLen bytes (20 in the program), so *)
(* a claim id has 2*HashLen hexadecimal characters (40 in the program).    *)
(* Every handler is one action.  The index is one set of documents: each   *)
(* write handler of the program ends with indices.refresh, so what a       *)
(* search sees after a handler is what the handler wrote.                  *)
(***************************************************************************)
EXTENDS Integers, Sequences, FiniteSets, TLC

\* ------------------------------------------------------------------ bounds
HashLen == 2
MaxQueue == 2
MaxUrls == 2
MaxHeight == 2
MaxClients == 3
MaxTries == 2
MaxOptions == 2

\* A claim id in full (len == 40 in the program) and the length under which
\* expand_query treats a scalar claim id as a prefix (len < 20).
FullIdLen == 2 * HashLen
PartialIdLen == HashLen

\* -------------------------------------------------------------- primitives
\* Python's None, among text values and among byte strings.
None == <<"None">>
NoneB == <<-1>>

Hex == <<"0", "1", "2", "3", "4", "5", "6", "7", "8", "9", "a", "b", "c", "d", "e", "f">>

HexVal(c) == (CHOOSE n \in 1..16 : Hex[n] = c) - 1

Reverse(s) == [i \in 1..Len(s) |-> s[Len(s) + 1 - i]]

RECURSIVE hexlify(_)
hexlify(bytes) ==
    IF bytes = <<>> THEN <<>>
    ELSE <<Hex[(bytes[1] \div 16) + 1], Hex[(bytes[1] % 16) + 1]>> \o hexlify(Tail(bytes))

RECURSIVE unhexlify(_)
unhexlify(text) ==
    IF Len(text) < 2 THEN <<>>
    ELSE <<16 * HexVal(text[1]) + HexVal(text[2])>> \o unhexlify(SubSeq(text, 3, Len(text)))

\* struct.unpack('<I', b)[0] and struct.pack('<I', n)
unpack_le(b) == b[1] + 256 * b[2] + 65536 * b[3] + 16777216 * b[4]
pack_le(n) == <<n % 256, (n \div 256) % 256, (n \div 65536) % 256, (n \div 16777216) % 256>>

\* lbry.error.claim_id
claim_id(claim_hash) == hexlify(Reverse(claim_hash))

\* Truthiness of a text and of a byte string: None and the empty one are falsy.
Truthy(v) == v # None /\ v # <<>>
TruthyB(v) == v # NoneB /\ v # <<>>

\* The elements of a sequence, and the orders in which a set can be listed.
Range(s) == {s[i] : i \in 1..Len(s)}
SeqsOf(S) == {s \in [1..Cardinality(S) -> S] : Range(s) = S}

RECURSIVE Concat(_)
Concat(ss) == IF ss = <<>> THEN <<>> ELSE Head(ss) \o Concat(Tail(ss))

\* ---------------------------------------------------------------- the chain
\* The claims the block processor can hand to the index, in the binary form
\* extract_doc takes.  Hash(b, g) is a claim hash whose first byte is b and
\* whose last byte is g: the id starts with the hex of g.
Hash(b, g) == [i \in 1..HashLen |-> IF i = 1 THEN b ELSE IF i = HashLen THEN g ELSE 0]

HashA == Hash(1, 16)
HashB == Hash(2, 16)
HashS == Hash(3, 32)
HashT == Hash(4, 32)
HashN == Hash(5, 48)

IdA == claim_id(HashA)
IdB == claim_id(HashB)
IdS == claim_id(HashS)
IdT == claim_id(HashT)
IdN == claim_id(HashN)

BinDoc(h, name, ctype, chan, repost, ctrl, sigvalid, height, amount) ==
    [claim_hash |-> h, normalized |-> name, claim_type |-> ctype,
     channel_hash |-> chan, reposted_claim_hash |-> repost,
     censoring_channel_hash |-> NoneB, censor_type |-> 0,
     txo_hash |-> Reverse(h) \o pack_le(h[1]),
     is_controlling |-> ctrl,
     signature |-> IF chan = NoneB THEN NoneB ELSE <<h[1]>>,
     signature_digest |-> IF chan = NoneB THEN NoneB ELSE <<h[1]>>,
     public_key_bytes |-> IF ctype = 2 THEN <<h[1]>> ELSE NoneB,
     public_key_hash |-> IF ctype = 2 THEN <<h[1]>> ELSE NoneB,
     signature_valid |-> sigvalid,
     height |-> height, creation_height |-> height,
     effective_amount |-> amount, channel_join |-> height]

\* A, B: two channels named @a, A controlling.  S: stream x signed by A.
\* T: a repost of S named x, in channel A with a bad signature.
\* N: an unsigned stream whose name is the 40 characters of A's claim id.
Chain ==
    {BinDoc(HashA, <<"@", "a">>, 2, NoneB, NoneB, 1, 0, 1, 2),
     BinDoc(HashB, <<"@", "a">>, 2, NoneB, NoneB, 0, 0, 2, 1),
     BinDoc(HashS, <<"x">>, 1, HashA, NoneB, 1, 1, 1, 2),
     BinDoc(HashT, <<"x">>, 3, HashA, HashS, 0, 0, 2, 1),
     BinDoc(HashN, IdA, 1, NoneB, NoneB, 1, 0, 2, 1)}


\* ------------------------------------------------------------------- codec
extract_doc(doc, index_name) ==
    LET d == [claim_id |-> claim_id(doc.claim_hash),
              reposted_claim_id |->
                  IF doc.reposted_claim_hash # NoneB
                  THEN claim_id(doc.reposted_claim_hash) ELSE None,
              channel_id |->
                  IF TruthyB(doc.channel_hash) THEN claim_id(doc.channel_hash)
                  ELSE IF doc.channel_hash = NoneB THEN None ELSE <<>>,
              censoring_channel_hash |->
                  IF TruthyB(doc.censoring_channel_hash)
                  THEN claim_id(doc.censoring_channel_hash)
                  ELSE IF doc.censoring_channel_hash = NoneB THEN None ELSE <<>>,
              tx_id |-> hexlify(Reverse(SubSeq(doc.txo_hash, 1, Len(doc.txo_hash) - 4))),
              tx_nout |-> unpack_le(SubSeq(doc.txo_hash, Len(doc.txo_hash) - 3,
                                                        Len(doc.txo_hash))),
              is_controlling |-> doc.is_controlling # 0,
              signature |->
                  IF TruthyB(doc.signature) THEN hexlify(doc.signature) ELSE None,
              signature_digest |->
                  IF TruthyB(doc.signature_digest) THEN hexlify(doc.signature_digest)
                  ELSE None,
              public_key_bytes |->
                  IF TruthyB(doc.public_key_bytes) THEN hexlify(doc.public_key_bytes)
                  ELSE None,
              public_key_hash |->
                  IF TruthyB(doc.public_key_hash) THEN hexlify(doc.public_key_hash)
                  ELSE None,
              signature_valid |-> doc.signature_valid # 0,
              claim_type |-> doc.claim_type,
              normalized |-> doc.normalized,
              censor_type |-> doc.censor_type,
              height |-> doc.height, creation_height |-> doc.creation_height,
              effective_amount |-> doc.effective_amount,
              channel_join |-> doc.channel_join]
    IN  [doc |-> d, id |-> d.claim_id, index |-> index_name, op_type |-> "update",
         doc_as_upsert |-> TRUE]

\* One hit of a search or found document of a multi-get, decoded.  (The
\* flattening of collapse inner_hits is not used by the handlers modelled.)
expand_one(source) ==
    [claim_id |-> source.claim_id,
     reposted_claim_id |-> source.reposted_claim_id,
     channel_id |-> source.channel_id,
     tx_id |-> source.tx_id, tx_nout |-> source.tx_nout,
     is_controlling |-> source.is_controlling,
     signature |-> source.signature,
     signature_digest |-> source.signature_digest,
     public_key_bytes |-> source.public_key_bytes,
     public_key_hash |-> source.public_key_hash,
     signature_valid |-> source.signature_valid,
     claim_type |-> source.claim_type, normalized |-> source.normalized,
     censor_type |-> source.censor_type,
     height |-> source.height, creation_height |-> source.creation_height,
     effective_amount |-> source.effective_amount,
     channel_join |-> source.channel_join,
     claim_hash |-> Reverse(unhexlify(source.claim_id)),
     reposted_claim_hash |->
         IF Truthy(source.reposted_claim_id)
         THEN Reverse(unhexlify(source.reposted_claim_id)) ELSE NoneB,
     channel_hash |->
         IF Truthy(source.channel_id) THEN Reverse(unhexlify(source.channel_id))
         ELSE NoneB,
     txo_hash |-> Reverse(unhexlify(source.tx_id)) \o pack_le(source.tx_nout),
     tx_hash |-> Reverse(unhexlify(source.tx_id)),
     censoring_channel_hash |->
         IF Truthy(source.censoring_channel_hash)
         THEN Reverse(unhexlify(source.censoring_channel_hash))
         ELSE IF source.censoring_channel_hash = None THEN NoneB ELSE <<>>]

expand_result(results) == [i \in 1..Len(results) |-> expand_one(results[i])]

\* ---------------------------------------------------------- query compiler
\* A Python value of an option: text, bool, int, list of texts, or None.
VT(s) == [t |-> "text", x |-> s]
VB(b) == [t |-> "bool", x |-> b]
VI(n) == [t |-> "int", x |-> n]
VL(l) == [t |-> "list", x |-> l]
VNone == [t |-> "none", x |-> 0]

\* kwargs: a dict in insertion order, as a sequence of [k, v].
KwHas(kw, key) == \E i \in 1..Len(kw) : kw[i].k = key
KwGet(kw, key) ==
    IF KwHas(kw, key) THEN kw[CHOOSE i \in 1..Len(kw) : kw[i].k = key].v ELSE VNone
\* kwargs[key] = v keeps the place of a key already there and appends a new one.
KwSet(kw, key, v) ==
    IF KwHas(kw, key)
    THEN [i \in 1..Len(kw) |-> IF kw[i].k = key THEN [k |-> key, v |-> v] ELSE kw[i]]
    ELSE Append(kw, [k |-> key, v |-> v])
RECURSIVE KwPop(_, _)
KwPop(kw, key) ==
    IF kw = <<>> THEN <<>>
    ELSE (IF Head(kw).k = key THEN <<>> ELSE <<Head(kw)>>) \o KwPop(Tail(kw), key)

FIELDS ==
    {"is_controlling", "last_take_over_height", "claim_id", "claim_name", "normalized",
     "tx_position", "amount", "timestamp", "creation_timestamp", "height",
     "creation_height", "activation_height", "expiration_height", "release_time",
     "short_url", "canonical_url", "title", "author", "description", "claim_type",
     "reposted", "stream_type", "media_type", "fee_amount", "fee_currency", "duration",
     "reposted_claim_hash", "censor_type", "claims_in_channel", "channel_join",
     "signature_valid", "effective_amount", "support_amount", "trending_group",
     "trending_mixed", "trending_local", "trending_global", "channel_id", "tx_id",
     "tx_nout", "signature", "signature_digest", "public_key_bytes", "public_key_hash",
     "public_key_id", "_id", "tags", "reposted_claim_id"}
TEXT_FIELDS ==
    {"author", "canonical_url", "channel_id", "claim_name", "description", "claim_id",
     "media_type", "normalized", "public_key_bytes", "public_key_hash", "short_url",
     "signature", "signature_digest", "stream_type", "title", "tx_id", "fee_currency",
     "reposted_claim_id", "tags"}
RANGE_FIELDS ==
    {"height", "creation_height", "activation_height", "expiration_height", "timestamp",
     "creation_timestamp", "duration", "release_time", "fee_amount", "tx_position",
     "channel_join", "reposted", "limit_claims_per_channel", "amount",
     "effective_amount", "support_amount", "trending_group", "trending_mixed",
     "censor_type", "trending_local", "trending_global"}
REPLACEMENTS(key) ==
    CASE key = "name" -> "normalized"
      [] key = "txid" -> "tx_id"
      [] key = "claim_hash" -> "_id"
      [] OTHER -> key

\* key.endswith('__in') and key.replace('__in', ''), on the option names in use.
EndsWithIn(key) == key \in {"claim_id__in", "channel_id__in"}
StripIn(key) ==
    CASE key = "claim_id__in" -> "claim_id"
      [] key = "channel_id__in" -> "channel_id"
      [] OTHER -> key

\* lbry.schema.url.normalize_name: case folding.
Fold(c) == CASE c = "X" -> "x" [] c = "A" -> "a" [] OTHER -> c
normalize_name(name) == [i \in 1..Len(name) |-> Fold(name[i])]

\* The comparison operators of a range value, longest first.
ops(op) ==
    CASE op = <<"<", "=">> -> "lte"
      [] op = <<">", "=">> -> "gte"
      [] op = <<"<">> -> "lt"
      [] op = <<">">> -> "gt"
      [] OTHER -> "none"

Clause(kind, fld, value, rop) == [kind |-> kind, field |-> fld, value |-> value, rop |-> rop]

\* lbry.wallet.server.db.common.CLAIM_TYPES
CLAIM_TYPES(name) ==
    CASE name = <<"s", "t", "r", "e", "a", "m">> -> 1
      [] name = <<"c", "h", "a", "n", "n", "e", "l">> -> 2
      [] name = <<"r", "e", "p", "o", "s", "t">> -> 3
      [] name = <<"c", "o", "l", "l", "e", "c", "t", "i", "o", "n">> -> 4

\* bool(value)
PyBool(value) ==
    CASE value.t = "bool" -> value.x
      [] value.t = "int" -> value.x # 0
      [] value.t \in {"text", "list"} -> value.x # <<>>
      [] OTHER -> FALSE

\* for item in value: the entries of a list, the characters of a text
Elements(value) ==
    IF value.t = "list" THEN value.x ELSE [i \in 1..Len(value.x) |-> <<value.x[i]>>]

\* One turn of the loop over kwargs.items(), up to the test of key in FIELDS:
\* the key and the value it goes on with.
OptionMany(key0, value0) == EndsWithIn(key0) \/ value0.t = "list"
OptionValue(key0, value0) ==
    IF OptionMany(key0, value0)
    THEN VL(SelectSeq(value0.x, LAMBDA e : e # <<>> /\ e # None))
    ELSE value0
OptionSkipped(key0, value0) ==
    LET value == OptionValue(key0, value0)
    IN  value.t = "none" \/ (value.t = "list" /\ Len(value.x) = 0)
OptionKey(key0, value0) ==
    REPLACEMENTS(IF OptionMany(key0, value0) THEN StripIn(key0) ELSE key0)

\* if not many and key in ('_id', 'claim_id') and len(value) < 20 that takes
\* every id short of a full one for a prefix.
partial_id_below_full(many, key, value) ==
    ~many /\ key \in {"_id", "claim_id"} /\ Len(value.x) < FullIdLen

\* if not many and key in ('_id', 'claim_id') and len(value) < 20
partial_id(many, key, value) ==
    ~many /\ key \in {"_id", "claim_id"} /\ Len(value.x) < PartialIdLen

\* if key == 'signature_valid': continue, left out of the loop.
handled_later_never(key) == FALSE

\* if key == 'signature_valid': continue  # handled later
handled_later(key) == key = "signature_valid"

\* The clauses one turn of the loop adds to must.  (Not translated, and not
\* among the options compiled here: the conversions of _id, public_key_id and
\* fee_amount, the tag, language and stream type options, which go through
\* clean_tags and STREAM_TYPES, and limit_claims_per_channel.)
OptionMust(key0, value0) ==
    LET many == OptionMany(key0, value0)
        value1 == OptionValue(key0, value0)
        key == OptionKey(key0, value0)
        value == IF key # "claim_type" THEN value1
                 ELSE IF value1.t = "text" THEN VI(CLAIM_TYPES(value1.x))
                 ELSE VL([i \in 1..Len(value1.x) |-> CLAIM_TYPES(value1.x[i])])
        fkey == IF key \in TEXT_FIELDS THEN key \o ".keyword" ELSE key
        isrange == key \in RANGE_FIELDS /\ value.t = "text" /\ Len(value.x) > 0
                   /\ ops(SubSeq(value.x, 1, 1)) # "none"
        operator_length == IF ops(SubSeq(value.x, 1, 2)) # "none" THEN 2 ELSE 1
    IN  IF OptionSkipped(key0, value0) THEN <<>>
        ELSE IF key \in FIELDS
        THEN IF handled_later(key) THEN <<>>
             ELSE IF partial_id(many, key, value)
             THEN <<Clause("prefix", "claim_id", value, "none")>>
             ELSE IF isrange
             THEN <<Clause("range", fkey,
                           VT(SubSeq(value.x, operator_length + 1, Len(value.x))),
                           ops(SubSeq(value.x, 1, operator_length)))>>
             ELSE IF many THEN <<Clause("terms", fkey, value, "none")>>
             ELSE <<Clause("term", fkey, value, "none")>>
        ELSE CASE key = "channel_ids" ->
                      <<Clause("terms", "channel_id.keyword", value, "none")>>
               [] key = "claim_ids" ->
                      <<Clause("terms", "claim_id.keyword", value, "none")>>
               [] key = "media_types" ->
                      <<Clause("terms", "media_type.keyword", value, "none")>>
               [] OTHER -> <<>>

\* The clauses one turn of the loop adds to must_not.
OptionMustNot(key0, value0) ==
    LET key == OptionKey(key0, value0)
        items == Elements(OptionValue(key0, value0))
    IN  IF OptionSkipped(key0, value0) \/ key \in FIELDS THEN <<>>
        ELSE CASE key = "not_channel_ids" ->
                      Concat([i \in 1..Len(items) |->
                                 <<Clause("term", "channel_id.keyword", VT(items[i]), "none"),
                                   Clause("term", "_id", VT(items[i]), "none")>>])
               [] key = "not_claim_id" ->
                      [i \in 1..Len(items) |->
                          Clause("term", "claim_id.keyword", VT(items[i]), "none")]
               [] OTHER -> <<>>

\* str(n) of a number n >= 0 and the number a text of digits stands for.
RECURSIVE str_int(_)
str_int(n) == IF n < 10 THEN <<Hex[n + 1]>> ELSE str_int(n \div 10) \o <<Hex[(n % 10) + 1]>>
RECURSIVE int_str(_)
int_str(s) == IF s = <<>> THEN 0 ELSE 10 * int_str(SubSeq(s, 1, Len(s) - 1)) + HexVal(s[Len(s)])

\* One entry of order_by: '^' and then a field name, or the field name alone.
SortOf(value) ==
    LET is_asc == value[1] = "^"
        name == REPLACEMENTS(IF is_asc THEN value[2] ELSE value[1])
    IN  [field |-> IF name \in TEXT_FIELDS THEN name \o ".keyword" ELSE name,
         dir |-> IF is_asc THEN "asc" ELSE "desc"]

\* if "amount_order" in kwargs: limit, order_by and offset are overwritten
amount_order(kwargs) ==
    IF KwHas(kwargs, "amount_order")
    THEN KwSet(KwSet(KwSet(kwargs, "limit", VI(1)), "order_by", VT(<<"effective_amount">>)),
               "offset", VI(KwGet(kwargs, "amount_order").x - 1))
    ELSE kwargs

\* kwargs['name'] = normalize_name(kwargs.pop('name')): the key moves last
name_normalized(kwargs) ==
    IF KwHas(kwargs, "name")
    THEN Append(KwPop(kwargs, "name"),
                [k |-> "name", v |-> VT(normalize_name(KwGet(kwargs, "name").x))])
    ELSE kwargs

\* if kwargs.get('is_controlling') is False: kwargs.pop('is_controlling')
is_controlling_false(kwargs) ==
    IF KwGet(kwargs, "is_controlling").t = "bool" /\ ~KwGet(kwargs, "is_controlling").x
    THEN KwPop(kwargs, "is_controlling") ELSE kwargs

\* The signature clauses added after the loop: to must, and the should group.
signature_must(kwargs) ==
    IF PyBool(KwGet(kwargs, "has_channel_signature"))
    THEN <<Clause("exists", "signature_digest", VNone, "none")>>
         \o (IF KwHas(kwargs, "signature_valid")
             THEN <<Clause("term", "signature_valid",
                           VB(PyBool(KwGet(kwargs, "signature_valid"))), "none")>>
             ELSE <<>>)
    ELSE <<>>
signature_should(kwargs) ==
    IF ~PyBool(KwGet(kwargs, "has_channel_signature")) /\ KwHas(kwargs, "signature_valid")
    THEN <<Clause("not_exists", "signature_digest", VNone, "none"),
           Clause("term", "signature_valid",
                  VB(PyBool(KwGet(kwargs, "signature_valid"))), "none")>>
    ELSE <<>>

\* if kwargs.get('text'): the simple_query_string clause
text_must(kwargs) ==
    IF PyBool(KwGet(kwargs, "text"))
    THEN <<Clause("simple_query_string", "text", KwGet(kwargs, "text"), "none")>>
    ELSE <<>>

\* The loop over kwargs.items() and what follows it.
query_of(kwargs) ==
    LET order_by == KwGet(kwargs, "order_by")
        order_list == SelectSeq(IF order_by.t = "text" THEN <<order_by.x>>
                                ELSE IF order_by.t = "list" THEN order_by.x ELSE <<>>,
                                LAMBDA v : "trending_group" \notin Range(v))
    IN  [source_excludes |-> <<"description", "title">>,
         must |-> Concat([i \in 1..Len(kwargs) |-> OptionMust(kwargs[i].k, kwargs[i].v)])
                  \o signature_must(kwargs) \o text_must(kwargs),
         must_not |-> Concat([i \in 1..Len(kwargs) |->
                                 OptionMustNot(kwargs[i].k, kwargs[i].v)]),
         should |-> signature_should(kwargs),
         minimum_should_match |-> IF signature_should(kwargs) # <<>> THEN 1 ELSE 0,
         sort |-> [i \in 1..Len(order_list) |-> SortOf(order_list[i])],
         size |-> KwGet(kwargs, "limit"),
         from |-> KwGet(kwargs, "offset")]

expand_query(kwargs) == query_of(is_controlling_false(name_normalized(amount_order(kwargs))))

\* ------------------------------------------------------------- the backend
\* What the search backend answers: the documents of the index that a compiled
\* query matches, in the order of its sort, cut to its size.
DocValue(doc, fld) ==
    CASE fld = "claim_id.keyword" -> VT(doc.claim_id)
      [] fld = "channel_id.keyword" -> VT(doc.channel_id)
      [] fld = "normalized.keyword" -> VT(doc.normalized)
      [] fld = "reposted_claim_id.keyword" -> VT(doc.reposted_claim_id)
      [] fld = "signature_digest" -> VT(doc.signature_digest)
      [] fld = "is_controlling" -> VB(doc.is_controlling)
      [] fld = "signature_valid" -> VB(doc.signature_valid)
      [] fld = "censor_type" -> VI(doc.censor_type)
      [] fld = "claim_type" -> VI(doc.claim_type)
      [] fld = "height" -> VI(doc.height)
      [] fld = "creation_height" -> VI(doc.creation_height)
      [] fld = "effective_amount" -> VI(doc.effective_amount)
      [] fld = "channel_join" -> VI(doc.channel_join)
      [] OTHER -> VNone

Exists(dv) == dv.t # "none" /\ ~(dv.t = "text" /\ dv.x = None)

NumberOf(v) == IF v.t = "int" THEN v.x ELSE int_str(v.x)

IsPrefix(p, s) == Len(p) <= Len(s) /\ SubSeq(s, 1, Len(p)) = p

MatchClause(doc, c) ==
    LET dv == DocValue(doc, c.field)
    IN  CASE c.kind = "term" ->
                 /\ Exists(dv)
                 /\ IF dv.t = "int" THEN c.value.t \in {"int", "text"} /\ dv.x = NumberOf(c.value)
                    ELSE dv.t = c.value.t /\ dv.x = c.value.x
          [] c.kind = "terms" ->
                 Exists(dv) /\ dv.t = "text" /\ dv.x \in Range(c.value.x)
          [] c.kind = "prefix" -> IsPrefix(c.value.x, doc.claim_id)
          [] c.kind = "range" ->
                 /\ dv.t = "int"
                 /\ CASE c.rop = "lt" -> dv.x < NumberOf(c.value)
                      [] c.rop = "lte" -> dv.x <= NumberOf(c.value)
                      [] c.rop = "gt" -> dv.x > NumberOf(c.value)
                      [] c.rop = "gte" -> dv.x >= NumberOf(c.value)
                      [] OTHER -> FALSE
          [] c.kind = "exists" -> Exists(dv)
          [] c.kind = "not_exists" -> ~Exists(dv)
          [] OTHER -> FALSE

Matches(doc, q) ==
    /\ \A i \in 1..Len(q.must) : MatchClause(doc, q.must[i])
    /\ \A i \in 1..Len(q.must_not) : ~MatchClause(doc, q.must_not[i])
    /\ \/ q.should = <<>>
       \/ \E i \in 1..Len(q.should) : MatchClause(doc, q.should[i])

\* d1 comes strictly before d2 under the sort keys from position i on.
RECURSIVE Before(_, _, _, _)
Before(d1, d2, sort, i) ==
    IF i > Len(sort) THEN FALSE
    ELSE LET a == DocValue(d1, sort[i].field).x
             b == DocValue(d2, sort[i].field).x
         IN  IF a = b THEN Before(d1, d2, sort, i + 1)
             ELSE IF sort[i].dir = "asc" THEN a < b ELSE a > b

\* The hit lists the backend may answer (ties of the sort in any order).
BackendSearch(idx, q) ==
    LET M == {d \in idx : Matches(d, q)}
        size == IF q.size.t = "int" THEN q.size.x ELSE 10
        from == IF q.from.t = "int" THEN q.from.x ELSE 0
    IN  IF M = {} THEN {<<>>}
        ELSE IF size = 1 /\ from = 0
        THEN {<<d>> : d \in {m \in M : \A o \in M : ~Before(o, m, q.sort, 1)}}
        ELSE {SubSeq(s, from + 1, IF from + size < Len(s) THEN from + size ELSE Len(s)) :
                 s \in {o \in SeqsOf(M) :
                           \A i, j \in 1..Len(o) : i < j => ~Before(o[j], o[i], q.sort, 1)}}

BackendTotal(idx, q) == Cardinality({d \in idx : Matches(d, q)})

\* mget: the documents stored under the ids, in the order of the ids.
RECURSIVE BackendMget(_, _)
BackendMget(idx, ids) ==
    IF ids = <<>> THEN <<>>
    ELSE (LET found == {d \in idx : d.claim_id = Head(ids)}
          IN  IF found = {} THEN <<>> ELSE <<CHOOSE d \in found : TRUE>>)
         \o BackendMget(idx, Tail(ids))

\* ------------------------------------------------------------------- caches
\* LRUCache(2 ** 16): a map; the keys of the model are far fewer than its
\* capacity, so nothing is ever evicted.
EmptyCache == <<>>
CacheSet(cache, key, value) ==
    [k \in DOMAIN cache \cup {key} |-> IF k = key THEN value ELSE cache[k]]

\* -------------------------------------------------------------------- URLs
\* lbry.schema.url: a URL is a channel segment (its name starts with @), a
\* stream segment, or a channel segment, '/', and a stream segment; a segment
\* is a name and, optionally, ':' and a claim id (in full, or a prefix of one).
NoSeg == [name |-> None, claim_id |-> None]
Seg(name, cid) == [name |-> name, claim_id |-> cid]

\* The first place of character c in text s, or 0.
IndexOf(s, c) == IF c \in Range(s) THEN CHOOSE i \in 1..Len(s) : s[i] = c /\ \A j \in 1..(i - 1) : s[j] # c ELSE 0

ParseSeg(p) ==
    LET i == IndexOf(p, ":")
    IN  IF i = 0 THEN Seg(p, None) ELSE Seg(SubSeq(p, 1, i - 1), SubSeq(p, i + 1, Len(p)))

SegOk(seg, channel) ==
    /\ seg.name # <<>> /\ seg.claim_id # <<>>
    /\ seg.name[1] = "@" <=> channel
    /\ channel => Len(seg.name) > 1
    /\ \A c \in Range(seg.name) \cup (IF seg.claim_id = None THEN {} ELSE Range(seg.claim_id)) :
          c \notin {"/", ":", "!", " "}

\* URL.parse(raw_url): [ok, channel, stream]; ok = FALSE stands for ValueError
parse(raw_url) ==
    LET i == IndexOf(raw_url, "/")
        first == ParseSeg(IF i = 0 THEN raw_url ELSE SubSeq(raw_url, 1, i - 1))
        second == ParseSeg(SubSeq(raw_url, i + 1, Len(raw_url)))
        bad == [ok |-> FALSE, channel |-> NoSeg, stream |-> NoSeg]
    IN  IF raw_url = <<>> THEN bad
        ELSE IF i = 0
        THEN IF SegOk(first, first.name # <<>> /\ first.name[1] = "@")
             THEN IF first.name[1] = "@"
                  THEN [ok |-> TRUE, channel |-> first, stream |-> NoSeg]
                  ELSE [ok |-> TRUE, channel |-> NoSeg, stream |-> first]
             ELSE bad
        ELSE IF SegOk(first, TRUE) /\ SegOk(second, FALSE)
             THEN [ok |-> TRUE, channel |-> first, stream |-> second]
             ELSE bad

has_channel(url) == url.channel # NoSeg
has_stream(url) == url.stream # NoSeg

\* PathSegment.to_dict and PathSegment.__str__
to_dict(seg) ==
    <<[k |-> "name", v |-> VT(seg.name)]>>
    \o (IF seg.claim_id # None THEN <<[k |-> "claim_id", v |-> VT(seg.claim_id)]>> ELSE <<>>)
str_seg(seg) == seg.name \o (IF seg.claim_id # None THEN <<":">> \o seg.claim_id ELSE <<>>)

\* ----------------------------------------------------------------- results
\* What a resolve step hands back: nothing, a claim id, a document or an error.
NoDoc == [claim_id |-> None]
NoUrl == <<>>
RNone == [kind |-> "none", id |-> None, doc |-> NoDoc, url |-> NoUrl, hash |-> NoneB]
RId(id) == [kind |-> "id", id |-> id, doc |-> NoDoc, url |-> NoUrl, hash |-> NoneB]
RDoc(doc) == [kind |-> "doc", id |-> None, doc |-> doc, url |-> NoUrl, hash |-> NoneB]
\* ValueError of URL.parse, LookupError('Could not find claim at ...'),
\* LookupError('Could not find channel in ...'), ResolveCensoredError(url, hash)
RValueError(url) ==
    [kind |-> "ValueError", id |-> None, doc |-> NoDoc, url |-> url, hash |-> NoneB]
RNoClaim(url) ==
    [kind |-> "NoClaim", id |-> None, doc |-> NoDoc, url |-> url, hash |-> NoneB]
RNoChannel(url) ==
    [kind |-> "NoChannel", id |-> None, doc |-> NoDoc, url |-> url, hash |-> NoneB]
RCensored(url, hash) ==
    [kind |-> "Censored", id |-> None, doc |-> NoDoc, url |-> url, hash |-> hash]

\* ---------------------------------------------------------------- resolver
\* Each operation gives the set of outcomes it may have (the backend may list
\* ties of a sort in any order), each with the caches as it leaves them.

get_many(claim_ids, sc, idx) ==
    LET cached == {id \in Range(claim_ids) : id \in DOMAIN sc}
        missing == SelectSeq(claim_ids, LAMBDA id : id \notin cached)
        results == IF missing # <<>> THEN expand_result(BackendMget(idx, missing)) ELSE <<>>
        SetAll[i \in 0..Len(results)] ==
            IF i = 0 THEN sc ELSE CacheSet(SetAll[i - 1], results[i].claim_id, results[i])
        sc2 == SetAll[Len(results)]
        got == SelectSeq(claim_ids, LAMBDA id : id \in DOMAIN sc2)
    IN  [res |-> [i \in 1..Len(got) |-> sc2[got[i]]], sc |-> sc2]

\* search(**kwargs) without a 'channel' option: (hits, 0, total)
search(kwargs, idx) ==
    LET q == expand_query(kwargs)
    IN  {[hits |-> expand_result(h), offset |-> 0, total |-> BackendTotal(idx, q)] :
            h \in BackendSearch(idx, q)}

CidKey(url) == <<"c", "i", "d", ":">> \o str_seg(url.channel)

\* resolve_channel_id that never writes the channel cache.
resolve_channel_id_uncached(raw_url, url, cc, idx) ==
    IF ~has_channel(url) THEN {[res |-> RNone, cc |-> cc]}
    ELSE LET key == CidKey(url)
             query0 == to_dict(url.channel)
             query == IF Len(query0) = 1
                      THEN KwSet(query0, "is_controlling", VB(TRUE))
                      ELSE KwSet(query0, "order_by", VL(<<<<"^", "creation_height">>>>))
             cid == IF KwHas(query, "claim_id") THEN KwGet(query, "claim_id").x ELSE <<>>
         IN  IF key \in DOMAIN cc THEN {[res |-> RId(cc[key]), cc |-> cc]}
             ELSE IF Len(cid) # FullIdLen
             THEN {IF r.hits # <<>>
                   THEN [res |-> RId(r.hits[1].claim_id),
                         cc |-> cc]
                   ELSE [res |-> RNoChannel(raw_url), cc |-> cc] :
                      r \in search(KwSet(query, "limit", VI(1)), idx)}
             ELSE {[res |-> RId(cid), cc |-> cc]}

\* resolve_channel_id that also caches the id of the URL when the search finds nothing.
resolve_channel_id_caching_misses(raw_url, url, cc, idx) ==
    IF ~has_channel(url) THEN {[res |-> RNone, cc |-> cc]}
    ELSE LET key == CidKey(url)
             query0 == to_dict(url.channel)
             query == IF Len(query0) = 1
                      THEN KwSet(query0, "is_controlling", VB(TRUE))
                      ELSE KwSet(query0, "order_by", VL(<<<<"^", "creation_height">>>>))
             cid == IF KwHas(query, "claim_id") THEN KwGet(query, "claim_id").x ELSE <<>>
         IN  IF key \in DOMAIN cc THEN {[res |-> RId(cc[key]), cc |-> cc]}
             ELSE IF Len(cid) # FullIdLen
             THEN {IF r.hits # <<>>
                   THEN [res |-> RId(r.hits[1].claim_id),
                         cc |-> CacheSet(cc, key, r.hits[1].claim_id)]
                   ELSE [res |-> RNoChannel(raw_url), cc |-> CacheSet(cc, key, cid)] :
                      r \in search(KwSet(query, "limit", VI(1)), idx)}
             ELSE {[res |-> RId(cid), cc |-> CacheSet(cc, key, cid)]}

resolve_channel_id(raw_url, url, cc, idx) ==
    IF ~has_channel(url) THEN {[res |-> RNone, cc |-> cc]}
    ELSE LET key == CidKey(url)
             query0 == to_dict(url.channel)
             query == IF Len(query0) = 1
                      THEN KwSet(query0, "is_controlling", VB(TRUE))
                      ELSE KwSet(query0, "order_by", VL(<<<<"^", "creation_height">>>>))
             cid == IF KwHas(query, "claim_id") THEN KwGet(query, "claim_id").x ELSE <<>>
         IN  IF key \in DOMAIN cc THEN {[res |-> RId(cc[key]), cc |-> cc]}
             ELSE IF Len(cid) # FullIdLen
             THEN {IF r.hits # <<>>
                   THEN [res |-> RId(r.hits[1].claim_id),
                         cc |-> CacheSet(cc, key, r.hits[1].claim_id)]
                   ELSE [res |-> RNoChannel(raw_url), cc |-> cc] :
                      r \in search(KwSet(query, "limit", VI(1)), idx)}
             ELSE {[res |-> RId(cid), cc |-> CacheSet(cc, key, cid)]}

StreamKey(url, channel_id) ==
    (IF channel_id # None THEN channel_id ELSE <<>>) \o str_seg(url.stream)

\* channel_id is a claim id, or None
resolve_stream(url, channel_id, sc, idx) ==
    IF ~has_stream(url) THEN {[res |-> RNone, sc |-> sc]}
    ELSE IF has_channel(url) /\ channel_id = None THEN {[res |-> RNone, sc |-> sc]}
    ELSE
    LET query0 == to_dict(url.stream)
        full == KwHas(query0, "claim_id") /\ Len(KwGet(query0, "claim_id").x) = FullIdLen
        gm == get_many(<<KwGet(query0, "claim_id").x>>, sc, idx)
        stream == IF full /\ gm.res # <<>> THEN RDoc(gm.res[1]) ELSE RNone
        sc1 == IF full THEN gm.sc ELSE sc
        key == StreamKey(url, channel_id)
        query == IF channel_id # None
                 THEN KwSet(KwSet(KwSet(query0, "order_by",
                                        IF Len(query0) = 1
                                        THEN VL(<<<<"effective_amount">>, <<"^", "height">>>>)
                                        ELSE VL(<<<<"^", "channel_join">>>>)),
                                  "channel_id", VT(channel_id)),
                            "signature_valid", VB(TRUE))
                 ELSE IF Len(query0) = 1 THEN KwSet(query0, "is_controlling", VB(TRUE))
                 ELSE query0
    IN  IF ~full /\ key \in DOMAIN sc THEN {[res |-> RDoc(sc[key]), sc |-> sc]}
        ELSE IF stream.kind = "doc" THEN {[res |-> stream, sc |-> sc1]}
        ELSE {IF r.hits # <<>>
              THEN [res |-> RDoc(r.hits[1]), sc |-> CacheSet(sc1, key, r.hits[1])]
              ELSE [res |-> RNone, sc |-> sc1] :
                 r \in search(KwSet(query, "limit", VI(1)), idx)}

\* resolve_url_rest returning the outcome of resolve_stream whatever the URL has.
resolve_url_rest_stream_only(raw_url, url, c, sc, idx) ==
    LET channel_id == IF c.res.kind = "id" THEN c.res.id ELSE None
    IN  UNION {
          LET stream == IF s.res.kind # "none" THEN s.res ELSE RNoClaim(raw_url)
          IN  IF TRUE THEN {[res |-> stream, sc |-> s.sc, cc |-> c.cc]}
              ELSE IF c.res.kind = "id"
              THEN LET gm == get_many(<<channel_id>>, s.sc, idx)
                   IN  {[res |-> IF gm.res # <<>> THEN RDoc(gm.res[1])
                                 ELSE RNoChannel(raw_url),
                         sc |-> gm.sc, cc |-> c.cc]}
              ELSE {[res |-> c.res, sc |-> s.sc, cc |-> c.cc]} :
          s \in resolve_stream(url, channel_id, sc, idx)}

\* After resolve_channel_id gave c (not a LookupError).
resolve_url_rest(raw_url, url, c, sc, idx) ==
    LET channel_id == IF c.res.kind = "id" THEN c.res.id ELSE None
    IN  UNION {
          LET stream == IF s.res.kind # "none" THEN s.res ELSE RNoClaim(raw_url)
          IN  IF has_stream(url) THEN {[res |-> stream, sc |-> s.sc, cc |-> c.cc]}
              ELSE IF c.res.kind = "id"
              THEN LET gm == get_many(<<channel_id>>, s.sc, idx)
                   IN  {[res |-> IF gm.res # <<>> THEN RDoc(gm.res[1])
                                 ELSE RNoChannel(raw_url),
                         sc |-> gm.sc, cc |-> c.cc]}
              ELSE {[res |-> c.res, sc |-> s.sc, cc |-> c.cc]} :
          s \in resolve_stream(url, channel_id, sc, idx)}

resolve_url(raw_url, sc, cc, idx) ==
    LET url == parse(raw_url)
    IN  IF ~url.ok THEN {[res |-> RValueError(raw_url), sc |-> sc, cc |-> cc]}
        ELSE UNION {IF c.res.kind = "NoChannel"
                    THEN {[res |-> c.res, sc |-> sc, cc |-> c.cc]}
                    ELSE resolve_url_rest(raw_url, url, c, sc, idx) :
                       c \in resolve_channel_id(raw_url, url, cc, idx)}

\* lbry.schema.result.Censor: a row is censored when its censor_type reaches
\* the level of the policy; the summary lists the censored rows, each with
\* the channel that censored it.
CensorSEARCH == 1
CensorRESOLVE == 2
is_censored(level, row) == row.censor_type >= level
CensorEntry(row) == [channel |-> row.censoring_channel_hash, tx_hash |-> row.tx_hash]

\* resolve_all giving up at the first URL that does not resolve.
RECURSIVE resolve_all_until_error(_, _, _, _)
resolve_all_until_error(urls, sc, cc, idx) ==
    IF urls = <<>> THEN {[results |-> <<>>, sc |-> sc, cc |-> cc]}
    ELSE UNION {IF r.res.kind # "doc"
                THEN {[results |-> <<r.res>>, sc |-> r.sc, cc |-> r.cc]}
                ELSE {[results |-> <<r.res>> \o rest.results, sc |-> rest.sc, cc |-> rest.cc] :
                         rest \in resolve_all_until_error(Tail(urls), r.sc, r.cc, idx)} :
                r \in resolve_url(Head(urls), sc, cc, idx)}

\* resolve(*urls): (results, censored, censor)
RECURSIVE resolve_all(_, _, _, _)
resolve_all(urls, sc, cc, idx) ==
    IF urls = <<>> THEN {[results |-> <<>>, sc |-> sc, cc |-> cc]}
    ELSE UNION {{[results |-> <<r.res>> \o rest.results, sc |-> rest.sc, cc |-> rest.cc] :
                    rest \in resolve_all(Tail(urls), r.sc, r.cc, idx)} :
                r \in resolve_url(Head(urls), sc, cc, idx)}

\* censor_results under the policy of searches, which also censors filtered rows.
censor_results_as_search(urls, results) ==
    [i \in 1..Len(results) |->
        IF results[i].kind # "doc" \/ ~is_censored(CensorSEARCH, results[i].doc)
        THEN results[i]
        ELSE RCensored(urls[i], results[i].doc.censoring_channel_hash)]

censor_results(urls, results) ==
    [i \in 1..Len(results) |->
        IF results[i].kind # "doc" \/ ~is_censored(CensorRESOLVE, results[i].doc)
        THEN results[i]
        ELSE RCensored(urls[i], results[i].doc.censoring_channel_hash)]

censor_summary(results) ==
    LET hit == SelectSeq(results,
                         LAMBDA r : r.kind = "doc" /\ is_censored(CensorRESOLVE, r.doc))
    IN  [i \in 1..Len(hit) |-> CensorEntry(hit[i].doc)]

resolve(urls, sc, cc, idx) ==
    {[results |-> r.results, censored |-> censor_results(urls, r.results),
      censor |-> censor_summary(r.results), sc |-> r.sc, cc |-> r.cc] :
        r \in resolve_all(urls, sc, cc, idx)}

\* _get_referenced_rows listing the reposted claims before the channels.
_get_referenced_rows_reposts_first(txo_rows0, sc, idx) ==
    LET txo_rows == SelectSeq(txo_rows0, LAMBDA r : r.kind = "doc")
        rows == {txo_rows[i].doc : i \in 1..Len(txo_rows)}
        repost_hashes == {r.reposted_claim_id : r \in {x \in rows : Truthy(x.reposted_claim_id)}}
        channel_hashes0 ==
            {r.channel_id : r \in {x \in rows : Truthy(x.channel_id)}}
            \cup {claim_id(r.censoring_channel_hash) :
                     r \in {x \in rows : TruthyB(x.censoring_channel_hash)}}
    IN  UNION {
          LET rp == IF repost_hashes # {} THEN get_many(ro, sc, idx)
                    ELSE [res |-> <<>>, sc |-> sc]
              reposted_txos == rp.res
              channel_hashes ==
                  channel_hashes0
                  \cup {r.channel_id : r \in {x \in Range(reposted_txos) : Truthy(x.channel_id)}}
          IN  {LET ch == IF channel_hashes # {} THEN get_many(co, rp.sc, idx)
                         ELSE [res |-> <<>>, sc |-> rp.sc]
                   channel_txos == ch.res
               IN  [res |-> reposted_txos \o channel_txos,
                    channel_txos |-> channel_txos, reposted_txos |-> reposted_txos,
                    sc |-> ch.sc] :
               co \in SeqsOf(channel_hashes)} :
          ro \in SeqsOf(repost_hashes)}

\* _get_referenced_rows(txo_rows): the rows are listed from Python sets, so in
\* any order.
_get_referenced_rows(txo_rows0, sc, idx) ==
    LET txo_rows == SelectSeq(txo_rows0, LAMBDA r : r.kind = "doc")
        rows == {txo_rows[i].doc : i \in 1..Len(txo_rows)}
        repost_hashes == {r.reposted_claim_id : r \in {x \in rows : Truthy(x.reposted_claim_id)}}
        channel_hashes0 ==
            {r.channel_id : r \in {x \in rows : Truthy(x.channel_id)}}
            \cup {claim_id(r.censoring_channel_hash) :
                     r \in {x \in rows : TruthyB(x.censoring_channel_hash)}}
    IN  UNION {
          LET rp == IF repost_hashes # {} THEN get_many(ro, sc, idx)
                    ELSE [res |-> <<>>, sc |-> sc]
              reposted_txos == rp.res
              channel_hashes ==
                  channel_hashes0
                  \cup {r.channel_id : r \in {x \in Range(reposted_txos) : Truthy(x.channel_id)}}
          IN  {LET ch == IF channel_hashes # {} THEN get_many(co, rp.sc, idx)
                         ELSE [res |-> <<>>, sc |-> rp.sc]
                   channel_txos == ch.res
               IN  [res |-> channel_txos \o reposted_txos,
                    channel_txos |-> channel_txos, reposted_txos |-> reposted_txos,
                    sc |-> ch.sc] :
               co \in SeqsOf(channel_hashes)} :
          ro \in SeqsOf(repost_hashes)}

\* Censor(level).apply(rows): the rows the censor marks (censor.censored is
\* truthy when there is one); the rows themselves are left as they are.
censor_apply(level, rows) == SelectSeq(rows, LAMBDA row : is_censored(level, row))

Rows(docs) == [i \in 1..Len(docs) |-> RDoc(docs[i])]

\* session_query('search', kwargs) after its first search.  In
\* self.search(**kwargs, censor_type=0) a kwargs that holds censor_type
\* itself gives the keyword twice, which is a TypeError of the call.
session_search_rest(kwargs, first, sc, idx) ==
    LET again == Append(kwargs, [k |-> "censor_type", v |-> VI(0)])
    IN  IF censor_apply(CensorSEARCH, first.hits) = <<>>
        THEN {[error |-> "none", searches |-> <<kwargs>>, hits |-> <<first.hits>>,
               response |-> first.hits, total_referenced |-> first.hits,
               references |-> refs.res, sc |-> refs.sc] :
                 refs \in _get_referenced_rows(Rows(first.hits), sc, idx)}
        ELSE IF KwHas(kwargs, "censor_type")
        THEN {[error |-> "TypeError", searches |-> <<kwargs>>, hits |-> <<first.hits>>,
               response |-> first.hits, total_referenced |-> first.hits,
               references |-> <<>>, sc |-> sc]}
        ELSE UNION {{[error |-> "none", searches |-> <<kwargs, again>>,
                      hits |-> <<first.hits, second.hits>>,
                      response |-> second.hits,
                      total_referenced |-> first.hits \o second.hits,
                      references |-> refs.res, sc |-> refs.sc] :
                        refs \in _get_referenced_rows(Rows(first.hits \o second.hits),
                                                      sc, idx)} :
                    second \in search(again, idx)}

\* session_query('search', kwargs), up to the call of the serializer
session_search(kwargs, sc, idx) ==
    UNION {session_search_rest(kwargs, first, sc, idx) : first \in search(kwargs, idx)}


\* An empty page: search's ([], 0, 0)
EmptyPage(sc, cc) == [hits |-> <<>>, offset |-> 0, total |-> 0, sc |-> sc, cc |-> cc]

\* search(**kwargs) after its 'channel' option is dealt with.  With the index
\* not there the backend raises NotFoundError, which search catches.
search_backend(kwargs, available, sc, cc, idx) ==
    IF ~available THEN {EmptyPage(sc, cc)}
    ELSE {[hits |-> s.hits, offset |-> s.offset, total |-> s.total, sc |-> sc, cc |-> cc] :
             s \in search(kwargs, idx)}

\* search(**kwargs) with a 'channel' option or without: the channel URL is
\* resolved and its claim id searched as channel_id; a URL that resolves to
\* an error gives the empty page.
search_channel(kwargs, available, sc, cc, idx) ==
    IF KwHas(kwargs, "channel")
    THEN UNION {IF r.res.kind # "doc" THEN {EmptyPage(r.sc, r.cc)}
                ELSE search_backend(KwSet(KwPop(kwargs, "channel"), "channel_id",
                                          VT(r.res.doc.claim_id)),
                                    available, r.sc, r.cc, idx) :
                   r \in resolve_url(KwGet(kwargs, "channel").x, sc, cc, idx)}
    ELSE search_backend(kwargs, available, sc, cc, idx)

\* session_query('search', kwargs) after its first search, with what it hands
\* to the serializer: response, references, offset, total.
session_query_rest(kwargs, available, first, idx) ==
    LET again == Append(kwargs, [k |-> "censor_type", v |-> VI(0)])
    IN  IF censor_apply(CensorSEARCH, first.hits) = <<>>
        THEN {[error |-> "none", response |-> first.hits, offset |-> first.offset,
               total |-> first.total, references |-> refs.res,
               sc |-> refs.sc, cc |-> first.cc] :
                 refs \in _get_referenced_rows(Rows(first.hits), first.sc, idx)}
        ELSE IF KwHas(kwargs, "censor_type")
        THEN {[error |-> "TypeError", response |-> first.hits, offset |-> first.offset,
               total |-> first.total, references |-> <<>>,
               sc |-> first.sc, cc |-> first.cc]}
        ELSE UNION {{[error |-> "none", response |-> second.hits, offset |-> first.offset,
                      total |-> first.total, references |-> refs.res,
                      sc |-> refs.sc, cc |-> second.cc] :
                        refs \in _get_referenced_rows(Rows(first.hits \o second.hits),
                                                      second.sc, idx)} :
                    second \in search_channel(again, available, first.sc, first.cc, idx)}

\* session_query(query_name, kwargs) with a query_name other than 'resolve'
session_query(kwargs, available, sc, cc, idx) ==
    UNION {session_query_rest(kwargs, available, first, idx) :
              first \in search_channel(kwargs, available, sc, cc, idx)}


\* ------------------------------------------------------------------- writer
IndexName == "claims"
NoBin == [claim_hash |-> NoneB]
QDelete(id) == [op |-> "delete", id |-> id, doc |-> NoBin]
QUpdate(doc) == [op |-> "update", id |-> None, doc |-> doc]

\* _queue_consumer_doc_producer: one bulk action for each entry of the queue
_queue_consumer_doc_producer(queue) ==
    [i \in 1..Len(queue) |->
        IF queue[i].op = "delete"
        THEN [doc |-> NoDoc, id |-> queue[i].id, index |-> IndexName, op_type |-> "delete",
              doc_as_upsert |-> FALSE]
        ELSE extract_doc(queue[i].doc, IndexName)]

\* The backend applying one bulk action.
BackendBulkItem(idx, a) ==
    IF a.op_type = "delete" THEN {d \in idx : d.claim_id # a.id}
    ELSE {d \in idx : d.claim_id # a.id} \cup {a.doc}

\* async_streaming_bulk: the actions in order; those in failed are not applied
\* (ok is False: the handler logs a warning and goes on).
RECURSIVE BackendBulk(_, _, _, _)
BackendBulk(idx, actions, failed, i) ==
    IF i > Len(actions) THEN idx
    ELSE BackendBulk(IF i \in failed THEN idx ELSE BackendBulkItem(idx, actions[i]),
                     actions, failed, i + 1)

\* ------------------------------------------------------- censorship applier
\* A block list: a dict of claim hash -> hash of the censoring channel, in
\* insertion order, as a sequence of [k, v].
HexDict(blockdict) ==
    [i \in 1..Len(blockdict) |->
        [k |-> hexlify(Reverse(blockdict[i].k)), v |-> hexlify(Reverse(blockdict[i].v))]]
DictKeys(d) == [i \in 1..Len(d) |-> d[i].k]
DictGet(d, key) == d[CHOOSE i \in 1..Len(d) : d[i].k = key].v

\* make_query without the condition on censor_type: the update then also
\* rewrites documents of a higher severity.
make_query_unguarded(censor_type, blockdict0, channels) ==
    [query |-> expand_query(
                   <<[k |-> IF channels THEN "channel_id__in" ELSE "claim_id__in",
                      v |-> VL(DictKeys(HexDict(blockdict0)))]>>),
     script |-> [censor_type |-> censor_type,
                 key |-> IF channels THEN "channel_id" ELSE "claim_id",
                 params |-> HexDict(blockdict0)]]

make_query(censor_type, blockdict0, channels) ==
    [query |-> expand_query(
                   <<[k |-> IF channels THEN "channel_id__in" ELSE "claim_id__in",
                      v |-> VL(DictKeys(HexDict(blockdict0)))],
                     [k |-> "censor_type", v |-> VT(<<"<">> \o str_int(censor_type))]>>),
     script |-> [censor_type |-> censor_type,
                 key |-> IF channels THEN "channel_id" ELSE "claim_id",
                 params |-> HexDict(blockdict0)]]

\* update_by_query followed by indices.refresh: the script runs on each
\* document the query matches.
BackendUpdateByQuery(idx, update) ==
    {IF Matches(d, update.query)
     THEN [d EXCEPT !.censor_type = update.script.censor_type,
                    !.censoring_channel_hash =
                        DictGet(update.script.params,
                                IF update.script.key = "channel_id" THEN d.channel_id
                                ELSE d.claim_id)]
     ELSE d : d \in idx}

\* The update_by_query calls of apply_filters in the order it issues them: a
\* list that is empty issues none.
\* filter_updates with the updates of a channel list matching channel_id
\* only: the channel claims themselves are left alone.
filter_updates_members_only(blocked_streams, blocked_channels, filtered_streams, filtered_channels) ==
    (IF filtered_streams # <<>> THEN <<make_query(1, filtered_streams, FALSE)>> ELSE <<>>)
    \o (IF filtered_channels # <<>> THEN <<make_query(1, filtered_channels, TRUE)>> ELSE <<>>)
    \o (IF blocked_streams # <<>> THEN <<make_query(2, blocked_streams, FALSE)>> ELSE <<>>)
    \o (IF blocked_channels # <<>> THEN <<make_query(2, blocked_channels, TRUE)>> ELSE <<>>)

filter_updates(blocked_streams, blocked_channels, filtered_streams, filtered_channels) ==
    (IF filtered_streams # <<>> THEN <<make_query(1, filtered_streams, FALSE)>> ELSE <<>>)
    \o (IF filtered_channels # <<>>
        THEN <<make_query(1, filtered_channels, FALSE), make_query(1, filtered_channels, TRUE)>>
        ELSE <<>>)
    \o (IF blocked_streams # <<>> THEN <<make_query(2, blocked_streams, FALSE)>> ELSE <<>>)
    \o (IF blocked_channels # <<>>
        THEN <<make_query(2, blocked_channels, FALSE), make_query(2, blocked_channels, TRUE)>>
        ELSE <<>>)

RECURSIVE UpdatesFrom(_, _, _)
UpdatesFrom(idx, updates, i) ==
    IF i > Len(updates) THEN idx
    ELSE UpdatesFrom(BackendUpdateByQuery(idx, updates[i]), updates, i + 1)

apply_filters(idx, blocked_streams, blocked_channels, filtered_streams, filtered_channels) ==
    UpdatesFrom(idx, filter_updates(blocked_streams, blocked_channels,
                                    filtered_streams, filtered_channels), 1)

\* A call the handler makes on the client, with its body.
Call(name, body) == [call |-> name, body |-> body]
NoBody == [query |-> <<>>]

\* apply_filters refreshing the index once, after its last update.
filter_calls_one_refresh(blocked_streams, blocked_channels, filtered_streams, filtered_channels) ==
    LET updates == filter_updates(blocked_streams, blocked_channels,
                                  filtered_streams, filtered_channels)
    IN  [i \in 1..Len(updates) |-> Call("update_by_query", updates[i])]
        \o (IF updates # <<>> THEN <<Call("refresh", NoBody)>> ELSE <<>>)

\* The calls apply_filters makes on the client, in the order it makes them:
\* every update_by_query is awaited and followed by indices.refresh.
filter_calls(blocked_streams, blocked_channels, filtered_streams, filtered_channels) ==
    LET updates == filter_updates(blocked_streams, blocked_channels,
                                  filtered_streams, filtered_channels)
    IN  Concat([i \in 1..Len(updates) |->
                   <<Call("update_by_query", updates[i]), Call("refresh", NoBody)>>])

\* delete_by_query followed by indices.refresh
BackendDeleteByQuery(idx, q) == {d \in idx : ~Matches(d, q)}

delete_above_height(idx, height) ==
    BackendDeleteByQuery(idx,
        expand_query(<<[k |-> "height", v |-> VT(<<">">> \o str_int(height))]>>))

\* -------------------------------------------------------------------- state
VARIABLES
    index,          \* the documents of the index <prefix>claims
    search_cache,   \* SearchIndex.search_cache
    channel_cache,  \* SearchIndex.channel_cache
    last,           \* the handler that completed last, with what it was given and gave
    client,         \* SearchIndex.client, and the clients created and not closed
    tasks           \* the handlers suspended at an await

vars == <<index, search_cache, channel_cache, last, client, tasks>>

\* self.client = None, and the clients made so far
NoClient == 0
Idle == [pc |-> "idle"]

Init ==
    /\ index = {}
    /\ search_cache = EmptyCache
    /\ channel_cache = EmptyCache
    /\ last = [op |-> "init"]
    /\ client = [current |-> NoClient, open |-> {}, made |-> 0]
    /\ tasks = [starts |-> {}, writer |-> Idle, reader |-> Idle]

\* The claim ids the entries of the two caches refer to.
CachedIds(sc, cc) == {sc[k].claim_id : k \in DOMAIN sc} \cup {cc[k] : k \in DOMAIN cc}

\* sync_queue that clears the stream cache only.
SyncQueue_keeping_channels(queue, failed) ==
    /\ index' = BackendBulk(index, _queue_consumer_doc_producer(queue), failed, 1)
    /\ search_cache' = EmptyCache
    /\ UNCHANGED <<channel_cache, client, tasks>>
    /\ last' = [op |-> "sync_queue",
                upserts |-> {claim_id(queue[i].doc.claim_hash) :
                                i \in {j \in 1..Len(queue) : queue[j].op = "update"}},
                cached |-> CachedIds(search_cache, channel_cache)]

\* sync_queue(claim_queue) that returns, as one step (SyncBegin to SyncFlush
\* have it await by await, and ended by an exception of the bulk stream);
\* last.cached: what the caches referred to when it began
SyncQueue(queue, failed) ==
    /\ index' = BackendBulk(index, _queue_consumer_doc_producer(queue), failed, 1)
    /\ search_cache' = EmptyCache
    /\ channel_cache' = EmptyCache
    /\ UNCHANGED <<client, tasks>>
    /\ last' = [op |-> "sync_queue",
                upserts |-> {claim_id(queue[i].doc.claim_hash) :
                                i \in {j \in 1..Len(queue) : queue[j].op = "update"}},
                cached |-> CachedIds(search_cache, channel_cache)]

\* apply_filters(blocked_streams, blocked_channels, filtered_streams, filtered_channels)
ApplyFilters(bs, bc, fs, fc) ==
    /\ index' = apply_filters(index, bs, bc, fs, fc)
    /\ UNCHANGED <<search_cache, channel_cache, client, tasks>>
    /\ last' = [op |-> "apply_filters", blocked_streams |-> bs, blocked_channels |-> bc,
                filtered_streams |-> fs, filtered_channels |-> fc,
                calls |-> filter_calls(bs, bc, fs, fc)]

\* delete_above_height(height)
DeleteAboveHeight(height) ==
    /\ index' = delete_above_height(index, height)
    /\ UNCHANGED <<search_cache, channel_cache, client, tasks>>
    /\ last' = [op |-> "delete_above_height", height |-> height]

\* resolve(*urls)
Resolve(urls) ==
    \E r \in resolve(urls, search_cache, channel_cache, index) :
        /\ search_cache' = r.sc
        /\ channel_cache' = r.cc
        /\ last' = [op |-> "resolve", urls |-> urls, results |-> r.results,
                    response |-> r.censored, censor |-> r.censor]
        /\ UNCHANGED <<index, client, tasks>>

\* session_query('resolve', urls), up to the call of the serializer
SessionResolve(urls) ==
    \E r \in resolve(urls, search_cache, channel_cache, index) :
        \E refs \in _get_referenced_rows(r.results, r.sc, index) :
            /\ search_cache' = refs.sc
            /\ channel_cache' = r.cc
            /\ last' = [op |-> "session_resolve", urls |-> urls, results |-> r.results,
                        response |-> r.censored, censor |-> r.censor,
                        references |-> refs.res, channel_txos |-> refs.channel_txos,
                        reposted_txos |-> refs.reposted_txos]
            /\ UNCHANGED <<index, client, tasks>>

\* session_query('search', kwargs), up to the call of the serializer
SessionSearch(kwargs) ==
    \E r \in session_search(kwargs, search_cache, index) :
        /\ search_cache' = r.sc
        /\ last' = [op |-> "session_search", kwargs |-> kwargs, error |-> r.error,
                    searches |-> r.searches, hits |-> r.hits, response |-> r.response,
                    total_referenced |-> r.total_referenced, references |-> r.references]
        /\ UNCHANGED <<index, channel_cache, client, tasks>>


\* session_query('search', kwargs) with the index there or not, up to the
\* call of the serializer.  A missing index with a 'channel' option is left
\* out: get_many does not catch the NotFoundError of mget.
SessionQuery(kwargs, available) ==
    /\ available \/ ~KwHas(kwargs, "channel")
    /\ \E r \in session_query(kwargs, available, search_cache, channel_cache, index) :
          /\ search_cache' = r.sc
          /\ channel_cache' = r.cc
          /\ last' = [op |-> "session_query", kwargs |-> kwargs, available |-> available,
                      error |-> r.error, response |-> r.response,
                      references |-> r.references, offset |-> r.offset, total |-> r.total]
    /\ UNCHANGED <<index, client, tasks>>


\* expand_query(**kwargs), called on its own
ExpandQuery(kwargs) ==
    /\ last' = [op |-> "expand_query", kwargs |-> kwargs, query |-> expand_query(kwargs)]
    /\ UNCHANGED <<index, search_cache, channel_cache, client, tasks>>


\* expand_result([{'_source': extract_doc(doc, index)['doc']}])[0]: a
\* document written to the index and read back
Codec(doc) ==
    /\ last' = [op |-> "codec", doc |-> doc,
                back |-> expand_result(<<extract_doc(doc, IndexName).doc>>)[1]]
    /\ UNCHANGED <<index, search_cache, channel_cache, client, tasks>>


\* ------------------------------------------------------------- client life
\* start() and stop().  start() is suspended at the health call of its loop
\* and at indices.create; a task of tasks.starts is a start() suspended there,
\* with the client it created and the ConnectionErrors it has met.
StartTask(id, pc, tries) == [id |-> id, pc |-> pc, tries |-> tries]

\* What a start() that ended leaves in last.
Started(id, outcome, result) ==
    [op |-> "start", created |-> id, outcome |-> outcome, result |-> result]

\* start() up to its first await: if self.client: return; else a client is made
StartCall ==
    /\ UNCHANGED <<index, search_cache, channel_cache>>
    /\ IF client.current # NoClient
       THEN /\ last' = Started(NoClient, "returned", "None")
            /\ UNCHANGED <<client, tasks>>
       ELSE /\ client.made < MaxClients
            /\ client' = [current |-> client.made + 1,
                          open |-> client.open \cup {client.made + 1},
                          made |-> client.made + 1]
            /\ tasks' = [tasks EXCEPT
                            !.starts = @ \cup {StartTask(client.made + 1, "health", 0)}]
            /\ UNCHANGED last

\* start() ends, by return or by an exception: nothing is done to the client
StartEnds(t, outcome, result) ==
    /\ tasks' = [tasks EXCEPT !.starts = @ \ {t}]
    /\ last' = Started(t.id, outcome, result)
    /\ UNCHANGED client

\* await self.client.cluster.health(wait_for_status='yellow') answers: the
\* loop ends, or ConnectionError is logged and the call repeated after a
\* second, or another exception leaves start()
StartHealth(t, answer) ==
    /\ t \in tasks.starts /\ t.pc = "health"
    /\ UNCHANGED <<index, search_cache, channel_cache>>
    /\ IF client.current = NoClient THEN StartEnds(t, "raised", "AttributeError")
       ELSE CASE answer = "yellow" ->
                     /\ tasks' = [tasks EXCEPT !.starts =
                                     (@ \ {t}) \cup {StartTask(t.id, "create", t.tries)}]
                     /\ UNCHANGED <<client, last>>
              [] answer = "ConnectionError" ->
                     /\ t.tries < MaxTries
                     /\ tasks' = [tasks EXCEPT !.starts =
                                     (@ \ {t}) \cup {StartTask(t.id, "health", t.tries + 1)}]
                     /\ UNCHANGED <<client, last>>
              [] OTHER -> StartEnds(t, "raised", "TransportError")

\* await self.client.indices.create(..., ignore=400) answers:
\* return res.get('acknowledged', False)
StartCreate(t, answer) ==
    /\ t \in tasks.starts /\ t.pc = "create"
    /\ UNCHANGED <<index, search_cache, channel_cache>>
    /\ IF client.current = NoClient THEN StartEnds(t, "raised", "AttributeError")
       ELSE CASE answer = "acknowledged" -> StartEnds(t, "returned", "True")
              [] answer = "400" -> StartEnds(t, "returned", "False")
              [] OTHER -> StartEnds(t, "raised", "TransportError")

\* stop(): self.client = None and the client it held is closed; with no
\* client, None.close() is an AttributeError
Stop ==
    /\ UNCHANGED <<index, search_cache, channel_cache, tasks>>
    /\ IF client.current = NoClient
       THEN /\ last' = [op |-> "stop", outcome |-> "raised", closed |-> NoClient]
            /\ UNCHANGED client
       ELSE /\ last' = [op |-> "stop", outcome |-> "returned", closed |-> client.current]
            /\ client' = [client EXCEPT !.current = NoClient, !.open = @ \ {client.current}]


\* ------------------------------------------------------ suspended handlers
\* sync_queue and get_many step by step: a step runs the handler from one
\* await to the next, and steps of the two handlers interleave.
\*
\* sync_queue(claim_queue) up to the bulk stream: the first indices.refresh
SyncBegin(queue) ==
    /\ tasks.writer.pc = "idle"
    /\ tasks' = [tasks EXCEPT !.writer = [pc |-> "bulk", queue |-> queue, failed |-> {},
                                          calls |-> <<Call("refresh", NoBody)>>]]
    /\ UNCHANGED <<index, search_cache, channel_cache, last, client>>

\* The actions of the bulk stream reach the backend, the entries at the
\* places of failed fail there.  async_streaming_bulk is called with the
\* defaults of the helper, which is not part of this repository: it either
\* hands a failed item to the loop as (False, item), which logs it, or, with
\* raise_on_error at its default, raises BulkIndexError out of sync_queue.
SyncBulk(failed, raises) ==
    /\ tasks.writer.pc = "bulk"
    /\ failed \subseteq 1..Len(tasks.writer.queue)
    /\ raises => failed # {}
    /\ LET actions == _queue_consumer_doc_producer(tasks.writer.queue)
           calls == Append(tasks.writer.calls, Call("bulk", [actions |-> actions]))
       IN  /\ index' = BackendBulk(index, actions, failed, 1)
           /\ IF raises
              THEN /\ tasks' = [tasks EXCEPT !.writer = Idle]
                   /\ last' = [op |-> "sync_queue_raised", queue |-> tasks.writer.queue,
                               failed |-> failed, calls |-> calls]
              ELSE /\ tasks' = [tasks EXCEPT !.writer.pc = "refresh",
                                             !.writer.failed = failed,
                                             !.writer.calls = calls]
                   /\ UNCHANGED last
    /\ UNCHANGED <<search_cache, channel_cache, client>>

\* the second indices.refresh
SyncRefresh ==
    /\ tasks.writer.pc = "refresh"
    /\ tasks' = [tasks EXCEPT !.writer.pc = "flush",
                              !.writer.calls = Append(@, Call("refresh", NoBody))]
    /\ UNCHANGED <<index, search_cache, channel_cache, last, client>>

\* indices.flush, then both caches are cleared and sync_queue returns
SyncFlush ==
    /\ tasks.writer.pc = "flush"
    /\ search_cache' = EmptyCache
    /\ channel_cache' = EmptyCache
    /\ tasks' = [tasks EXCEPT !.writer = Idle]
    /\ last' = [op |-> "sync_queue", queue |-> tasks.writer.queue,
                failed |-> tasks.writer.failed,
                calls |-> tasks.writer.calls
                          \o <<Call("flush", NoBody), Call("clear", NoBody)>>]
    /\ UNCHANGED <<index, client>>

\* What get_many returns: list(filter(None, map(self.search_cache.get, claim_ids)))
cached_results(claim_ids, sc) ==
    LET got == SelectSeq(claim_ids, LAMBDA id : id \in DOMAIN sc)
    IN  [i \in 1..Len(got) |-> sc[got[i]]]

\* get_many(*claim_ids) up to its await of mget; with nothing missing it
\* returns at once
GetManyCall(claim_ids) ==
    /\ tasks.reader.pc = "idle"
    /\ LET cached == {id \in Range(claim_ids) : id \in DOMAIN search_cache}
           missing == SelectSeq(claim_ids, LAMBDA id : id \notin cached)
       IN  IF missing = <<>>
           THEN /\ last' = [op |-> "get_many", claim_ids |-> claim_ids, cached |-> cached,
                            asked |-> missing, found |-> {},
                            result |-> cached_results(claim_ids, search_cache)]
                /\ UNCHANGED tasks
           ELSE /\ tasks' = [tasks EXCEPT !.reader = [pc |-> "mget", claim_ids |-> claim_ids,
                                                      cached |-> cached, missing |-> missing]]
                /\ UNCHANGED last
    /\ UNCHANGED <<index, search_cache, channel_cache, client>>

\* mget answers: the documents found are decoded and put in the cache, and
\* get_many returns what the cache then holds for claim_ids
GetManyResume ==
    /\ tasks.reader.pc = "mget"
    /\ LET results == expand_result(BackendMget(index, tasks.reader.missing))
           SetAll[i \in 0..Len(results)] ==
               IF i = 0 THEN search_cache
               ELSE CacheSet(SetAll[i - 1], results[i].claim_id, results[i])
       IN  /\ search_cache' = SetAll[Len(results)]
           /\ last' = [op |-> "get_many", claim_ids |-> tasks.reader.claim_ids,
                       cached |-> tasks.reader.cached, asked |-> tasks.reader.missing,
                       found |-> {results[i].claim_id : i \in 1..Len(results)},
                       result |-> cached_results(tasks.reader.claim_ids,
                                                 SetAll[Len(results)])]
    /\ tasks' = [tasks EXCEPT !.reader = Idle]
    /\ UNCHANGED <<index, channel_cache, client>>


\* resolve_url(raw_url) for a URL with a stream segment, no channel and no
\* full claim id, up to its one await: resolve_channel_id returns None,
\* resolve_stream returns the cached stream of the key or awaits the search
ResolveUrlCall(raw_url) ==
    /\ tasks.reader.pc = "idle"
    /\ LET url == parse(raw_url)
           query0 == to_dict(url.stream)
           query == IF Len(query0) = 1 THEN KwSet(query0, "is_controlling", VB(TRUE))
                    ELSE query0
           key == StreamKey(url, None)
       IN  /\ url.ok /\ ~has_channel(url) /\ has_stream(url)
           /\ ~(KwHas(query0, "claim_id") /\ Len(KwGet(query0, "claim_id").x) = FullIdLen)
           /\ IF key \in DOMAIN search_cache
              THEN /\ last' = [op |-> "resolve_url", raw_url |-> raw_url,
                               result |-> RDoc(search_cache[key])]
                   /\ UNCHANGED tasks
              ELSE /\ tasks' = [tasks EXCEPT !.reader =
                                   [pc |-> "search", raw_url |-> raw_url, key |-> key,
                                    query |-> expand_query(KwSet(query, "limit", VI(1)))]]
                   /\ UNCHANGED last
    /\ UNCHANGED <<index, search_cache, channel_cache, client>>

\* The backend answers the search from the index as it is now; the answer is
\* on its way to the task, which has not run yet.
SearchAnswer ==
    /\ tasks.reader.pc = "search"
    /\ \E hits \in BackendSearch(index, tasks.reader.query) :
          tasks' = [tasks EXCEPT !.reader =
                       [pc |-> "answered", raw_url |-> tasks.reader.raw_url,
                        key |-> tasks.reader.key, hits |-> hits]]
    /\ UNCHANGED <<index, search_cache, channel_cache, last, client>>

\* The task runs again: search decodes the hits, resolve_stream caches the
\* first one under the key and resolve_url returns it, or the lookup error
ResolveUrlResume ==
    /\ tasks.reader.pc = "answered"
    /\ LET matches == expand_result(tasks.reader.hits)
       IN  IF matches # <<>>
           THEN /\ search_cache' = CacheSet(search_cache, tasks.reader.key, matches[1])
                /\ last' = [op |-> "resolve_url", raw_url |-> tasks.reader.raw_url,
                            result |-> RDoc(matches[1])]
           ELSE /\ UNCHANGED search_cache
                /\ last' = [op |-> "resolve_url", raw_url |-> tasks.reader.raw_url,
                            result |-> RNoClaim(tasks.reader.raw_url)]
    /\ tasks' = [tasks EXCEPT !.reader = Idle]
    /\ UNCHANGED <<index, channel_cache, client>>


\* ------------------------------------------------------------------- inputs
SeqsUpTo(S, n) == UNION {[1..k -> S] : k \in 0..n}

UChan == <<"@", "a">>
UChanFull == <<"@", "a", ":">> \o IdB
UChanPart == <<"@", "a", ":", "1">>
UBoth == <<"@", "a", "/", "x">>
UStream == <<"x">>
UBothFull == <<"@", "a", "/", "x", ":">> \o IdT
UAlias == IdA
UBad == <<"!">>

\* The block processor's queue entries: the claims of the chain with the
\* hashes given, to write, and claim ids to delete.
Updates(hashes) == {QUpdate(d) : d \in {c \in Chain : c.claim_hash \in hashes}}
Deletes(ids) == {QDelete(id) : id \in ids}

BlockS == <<[k |-> HashS, v |-> HashB]>>
BlockA == <<[k |-> HashA, v |-> HashB]>>
BlockST == <<[k |-> HashS, v |-> HashA], [k |-> HashT, v |-> HashB]>>

\* The ingest path, with the queue entries and the block lists drawn from the
\* sets given.
Ingest(entries, lists) ==
    \/ \E queue \in SeqsUpTo(entries, MaxQueue) :
          \E failed \in SUBSET (1..Len(queue)) : SyncQueue(queue, failed)
    \/ \E bs, bc, fs, fc \in lists : ApplyFilters(bs, bc, fs, fc)
    \/ \E height \in 0..MaxHeight : DeleteAboveHeight(height)

\* Sessions resolving streams, beside the ingest path.
Next ==
    \/ Ingest(Updates({HashA, HashS, HashT}), {<<>>, BlockS})
    \/ \E urls \in SeqsUpTo({UBoth, UStream, UBothFull, UBad}, MaxUrls) : SessionResolve(urls)

Spec == Init /\ [][Next]_vars

\* Callers of resolve() naming channels, beside the ingest path.
NextChan ==
    \/ Ingest(Updates({HashA, HashB, HashN}), {<<>>, BlockA})
    \/ \E urls \in SeqsUpTo({UChan, UChanFull, UChanPart, UAlias, UBad}, MaxUrls) : Resolve(urls)

SpecChan == Init /\ [][NextChan]_vars

\* The ingest path alone.
NextCensor ==
    Ingest(Updates({HashA, HashS}) \cup Deletes({IdS}), {<<>>, BlockA, BlockST})

SpecCensor == Init /\ [][NextCensor]_vars

\* Sessions searching, beside the ingest path.
KwAll == <<>>
KwNameX == <<[k |-> "name", v |-> VT(<<"x">>)]>>
KwFiltered == <<[k |-> "censor_type", v |-> VI(CensorSEARCH)]>>

NextSearch ==
    \/ Ingest(Updates({HashA, HashS}), {<<>>, BlockS})
    \/ \E kwargs \in {KwAll, KwNameX, KwFiltered} : SessionSearch(kwargs)

SpecSearch == Init /\ [][NextSearch]_vars



\* The block processor writing while a session resolves stream URLs.
UStreamPart == <<"x", ":", "2">>

NextRace ==
    \/ \E queue \in SeqsUpTo(Updates({HashS}) \cup Deletes({IdS}), MaxQueue) :
          SyncBegin(queue)
    \/ \E failed \in SUBSET (1..MaxQueue) : \E raises \in BOOLEAN : SyncBulk(failed, raises)
    \/ SyncRefresh
    \/ SyncFlush
    \/ \E raw_url \in {UStream, UStreamPart} : ResolveUrlCall(raw_url)
    \/ SearchAnswer
    \/ ResolveUrlResume

SpecRace == Init /\ [][NextRace]_vars



\* Sessions searching page by page, beside the ingest path.
KwOffset == <<[k |-> "offset", v |-> VI(1)]>>
KwChannel == <<[k |-> "channel", v |-> VT(UChan)]>>
KwChannelOffset == <<[k |-> "channel", v |-> VT(UChan)], [k |-> "offset", v |-> VI(1)]>>

NextPage ==
    \/ Ingest(Updates({HashA, HashS}), {<<>>, BlockS})
    \/ \E kwargs \in {KwAll, KwNameX, KwOffset, KwChannel, KwChannelOffset} :
          \E available \in BOOLEAN : SessionQuery(kwargs, available)

SpecPage == Init /\ [][NextPage]_vars


\* The life of the client: start() and stop() called in any order.
NextClient ==
    \/ StartCall
    \/ \E t \in tasks.starts : \E answer \in {"yellow", "ConnectionError", "error"} :
          StartHealth(t, answer)
    \/ \E t \in tasks.starts : \E answer \in {"acknowledged", "400", "error"} :
          StartCreate(t, answer)
    \/ Stop

SpecClient == Init /\ [][NextClient]_vars


\* The query compiler alone.  The options a caller presents: a claim id of
\* every length up to the full one or None, a name, a claim type, channels to
\* leave out, the two signature options, a text.
Option(key, value) == [k |-> key, v |-> value]
QueryOptions ==
    {Option("claim_id", VT(SubSeq(IdS, 1, n))) : n \in 0..FullIdLen}
    \cup {Option("claim_id", VNone),
          Option("name", VT(<<"X">>)),
          Option("claim_type", VT(<<"s", "t", "r", "e", "a", "m">>)),
          Option("not_channel_ids", VL(<<IdA>>)),
          Option("text", VT(<<"m">>))}
    \cup {Option("has_channel_signature", VB(b)) : b \in BOOLEAN}
    \cup {Option("signature_valid", VB(b)) : b \in BOOLEAN}

\* kwargs is a dict: no key twice
KwargsUpTo(options, n) ==
    {kw \in SeqsUpTo(options, n) : \A i, j \in 1..Len(kw) : i # j => kw[i].k # kw[j].k}

NextQuery == \E kwargs \in KwargsUpTo(QueryOptions, MaxOptions) : ExpandQuery(kwargs)

SpecQuery == Init /\ [][NextQuery]_vars


\* The codec alone.  The documents given to it: each hash None, empty or set,
\* the signature fields and the public key fields None, empty or set.
CodecDoc(h, repost, chan, censoring, sig, pk) ==
    [BinDoc(h, <<"x">>, 1, chan, repost, 1, 1, 1, 1) EXCEPT
        !.censoring_channel_hash = censoring,
        !.signature = sig, !.signature_digest = sig,
        !.public_key_bytes = pk, !.public_key_hash = pk]
CodecDocs ==
    {CodecDoc(h, repost, chan, censoring, sig, pk) :
        h \in {HashA, HashS}, repost \in {NoneB, <<>>, HashS}, chan \in {NoneB, <<>>, HashA},
        censoring \in {NoneB, <<>>, HashB}, sig \in {NoneB, <<>>, <<7>>},
        pk \in {NoneB, <<7>>}}

NextCodec == \E doc \in CodecDocs : Codec(doc)

SpecCodec == Init /\ [][NextCodec]_vars


\* The block processor writing while a session reads claims by id.
NextTasks ==
    \/ \E queue \in SeqsUpTo(Updates({HashA}) \cup Deletes({IdA}), MaxQueue) :
          SyncBegin(queue)
    \/ \E failed \in SUBSET (1..MaxQueue) : \E raises \in BOOLEAN : SyncBulk(failed, raises)
    \/ SyncRefresh
    \/ SyncFlush
    \/ \E claim_ids \in SeqsUpTo({IdA, IdS}, MaxUrls) : GetManyCall(claim_ids)
    \/ GetManyResume

SpecTasks == Init /\ [][NextTasks]_vars


\* ------------------------------------------------------------------- claims
\* The claim ids a block list names, as the index spells them.
HexKeys(blockdict) == Range(DictKeys(HexDict(blockdict)))

\* C1: censor_type never decreases across apply_filters: a call leaves every
\* document in the index with a censor_type at least as high as before, and a
\* document whose censor_type it does not raise is not changed at all, so a
\* blocked document (2) is never re-tagged as filtered (1).
CensorTypeNeverDecreases ==
    [][last'.op = "apply_filters" =>
          \A d \in index :
              \E e \in index' :
                  /\ e.claim_id = d.claim_id
                  /\ e.censor_type >= d.censor_type
                  /\ (e.censor_type = d.censor_type => e = d)]_vars

\* A call with filter lists only has named a document that was blocked before
\* it, and the document is still blocked.
BlockedThenFiltered ==
    /\ last.op = "apply_filters"
    /\ last.blocked_streams = <<>> /\ last.blocked_channels = <<>>
    /\ \E d \in index :
          /\ d.censor_type = 2
          /\ \/ d.claim_id \in HexKeys(last.filtered_streams)
             \/ d.claim_id \in HexKeys(last.filtered_channels)
             \/ d.channel_id \in HexKeys(last.filtered_channels)

\* C2: after apply_filters completes, no document of the index has a claim_id
\* that is a key of a blocked list together with censor_type < 2, nor a
\* claim_id that is a key of a filtered list together with censor_type = 0.
ListedClaimsAreCensored ==
    last.op = "apply_filters" =>
        \A d \in index :
            /\ d.claim_id \in HexKeys(last.blocked_streams) \cup HexKeys(last.blocked_channels)
                   => d.censor_type >= 2
            /\ d.claim_id \in HexKeys(last.filtered_streams) \cup HexKeys(last.filtered_channels)
                   => d.censor_type >= 1

\* A call has blocked a claim of the index that its blocked_channels names
\* and filtered a claim of the index that its filtered_streams names.
BlockedAndFilteredListed ==
    /\ last.op = "apply_filters"
    /\ \E d \in index : d.claim_id \in HexKeys(last.blocked_channels) /\ d.censor_type = 2
    /\ \E d \in index : d.claim_id \in HexKeys(last.filtered_streams) /\ d.censor_type = 1

\* C3: after sync_queue with upserts for a set S of claim ids completes,
\* neither the channel cache nor the stream cache contains an entry whose value
\* references a claim id in S: both caches are empty.
CachesClearedBySyncQueue ==
    last.op = "sync_queue" =>
        /\ search_cache = EmptyCache
        /\ channel_cache = EmptyCache
        /\ CachedIds(search_cache, channel_cache) \cap last.upserts = {}

\* sync_queue has upserted a claim that the caches referred to when it began.
UpsertOfCachedClaim ==
    /\ last.op = "sync_queue"
    /\ last.upserts \cap last.cached # {}

\* C4: both caches are cleared after any write of the ingest path, after
\* sync_queue and also after delete_above_height(h), so that after
\* delete_above_height(h) no cache entry holds a document with height > h.
CachesClearedByEveryWrite ==
    /\ last.op = "sync_queue" => search_cache = EmptyCache /\ channel_cache = EmptyCache
    /\ last.op = "delete_above_height" =>
           \A k \in DOMAIN search_cache : search_cache[k].height <= last.height

\* The roles under which session_query looks up references of the rows.
RepostRole(rows) ==
    {rows[i].doc.reposted_claim_id :
        i \in {j \in 1..Len(rows) : rows[j].kind = "doc"
                                    /\ Truthy(rows[j].doc.reposted_claim_id)}}
ChannelRole(rows, reposted_txos) ==
    {rows[i].doc.channel_id :
        i \in {j \in 1..Len(rows) : rows[j].kind = "doc" /\ Truthy(rows[j].doc.channel_id)}}
    \cup {claim_id(rows[i].doc.censoring_channel_hash) :
        i \in {j \in 1..Len(rows) : rows[j].kind = "doc"
                                    /\ TruthyB(rows[j].doc.censoring_channel_hash)}}
    \cup {reposted_txos[i].channel_id :
        i \in {j \in 1..Len(reposted_txos) : Truthy(reposted_txos[j].channel_id)}}

\* C8: the list _get_referenced_rows returns holds every document fetched as
\* a channel reference before any document fetched as a reposted claim.
ChannelsBeforeReposts ==
    last.op = "session_resolve" =>
        LET n == Len(last.channel_txos)
        IN  /\ Len(last.references) = n + Len(last.reposted_txos)
            /\ \A i \in 1..Len(last.references) :
                  IF i <= n
                  THEN /\ last.references[i] = last.channel_txos[i]
                       /\ last.references[i].claim_id
                              \in ChannelRole(last.results, last.reposted_txos)
                  ELSE /\ last.references[i] = last.reposted_txos[i - n]
                       /\ last.references[i].claim_id \in RepostRole(last.results)

\* A response refers to a channel and to a reposted claim.
ChannelAndRepostReferenced ==
    /\ last.op = "session_resolve"
    /\ Len(last.channel_txos) >= 1
    /\ Len(last.reposted_txos) >= 1

\* C9: a URL that is malformed or does not resolve yields an error value at
\* its own position; every other URL of the call is still resolved and returned
\* at its position, the results being as many as the URLs and in their order.
ResolvedInPlace ==
    last.op = "session_resolve" =>
        /\ Len(last.results) = Len(last.urls)
        /\ Len(last.response) = Len(last.urls)
        /\ \A i \in 1..Len(last.urls) :
              /\ IF parse(last.urls[i]).ok
                 THEN last.results[i].kind \in {"doc", "NoClaim", "NoChannel"}
                 ELSE last.results[i] = RValueError(last.urls[i])
              /\ last.results[i].kind # "doc" => last.results[i].url = last.urls[i]
              /\ last.results[i] \in
                     {r.res : r \in resolve_url(last.urls[i], search_cache, channel_cache, index)}

\* A call whose first URL is malformed and whose second URL resolved.
ErrorThenClaim ==
    /\ last.op = "session_resolve"
    /\ Len(last.urls) = 2
    /\ last.results[1].kind = "ValueError"
    /\ last.results[2].kind = "doc"

\* The positions of the rows that the policy of resolve censors.
CensoredAt(rows) == {i \in 1..Len(rows) : rows[i].kind = "doc" /\ rows[i].doc.censor_type >= 2}

\* C10: resolve replaces every resolved document that is blocked by a censored
\* error for the same URL at the same position, carrying the document's
\* censoring_channel_hash; it returns every other result unchanged, and the
\* Censor summary counts exactly the censored items.
CensoredInPlace ==
    last.op = "session_resolve" =>
        /\ \A i \in 1..Len(last.results) :
              last.response[i] =
                  IF i \in CensoredAt(last.results)
                  THEN RCensored(last.urls[i], last.results[i].doc.censoring_channel_hash)
                  ELSE last.results[i]
        /\ Len(last.censor) = Cardinality(CensoredAt(last.results))
        /\ \A i \in CensoredAt(last.results) :
              \E j \in 1..Len(last.censor) :
                  /\ last.censor[j].channel = last.results[i].doc.censoring_channel_hash
                  /\ last.censor[j].tx_hash = last.results[i].doc.tx_hash

\* A call that returned one claim as it is and another censored.
ClaimThenCensored ==
    /\ last.op = "session_resolve"
    /\ Len(last.urls) = 2
    /\ last.response[1].kind = "doc"
    /\ last.response[2].kind = "Censored"
    /\ Len(last.censor) = 1

\* A URL that names a channel and no stream.
ChannelOnly(raw_url) ==
    LET url == parse(raw_url) IN url.ok /\ has_channel(url) /\ ~has_stream(url)

ChannelResolved ==
    /\ last'.op = "resolve"
    /\ Len(last'.urls) = 1
    /\ ChannelOnly(last'.urls[1])
    /\ last'.results[1].kind = "doc"

CachesKept ==
    /\ \A k \in DOMAIN search_cache :
          k \in DOMAIN search_cache' /\ search_cache'[k] = search_cache[k]
    /\ \A k \in DOMAIN channel_cache :
          k \in DOMAIN channel_cache' /\ channel_cache'[k] = channel_cache[k]

\* The stream cache gained only documents that the index holds.
NewStreamsFound ==
    \A k \in DOMAIN search_cache' \ DOMAIN search_cache :
        \E d \in index : search_cache'[k] = expand_one(d)

\* The channel cache gained the id v under the key k for a URL that carries v
\* as a full claim id.
FullIdOfUrl(urls, k, v) ==
    \E i \in 1..Len(urls) :
        LET url == parse(urls[i])
        IN  /\ url.ok /\ has_channel(url)
            /\ CidKey(url) = k
            /\ url.channel.claim_id = v
            /\ Len(v) = FullIdLen

\* C7, as stated: every value stored in the channel cache or the stream cache
\* was obtained from a successful backend lookup, a search hit or a found
\* multi-get document; a lookup that fails or finds nothing leaves both caches
\* unchanged.
CacheWritesFromLookups ==
    [][last'.op = "resolve" =>
          /\ CachesKept
          /\ NewStreamsFound
          /\ \A k \in DOMAIN channel_cache' \ DOMAIN channel_cache :
                \E d \in index : channel_cache'[k] = d.claim_id]_vars

\* C7, amended: every value stored in the stream cache is a document that a
\* backend lookup found, and every value stored in the channel cache is the
\* claim id of a search hit or else the full claim id that the URL carries,
\* which is stored without a lookup; a lookup that finds nothing stores nothing
\* and no entry is dropped or changed.
CacheWritesFromLookupsOrUrl ==
    [][last'.op = "resolve" =>
          /\ CachesKept
          /\ NewStreamsFound
          /\ \A k \in DOMAIN channel_cache' \ DOMAIN channel_cache :
                \/ \E d \in index : channel_cache'[k] = d.claim_id
                \/ FullIdOfUrl(last'.urls, k, channel_cache'[k])]_vars

\* A URL with the full claim id of a channel the index does not hold was
\* answered channel-not-found, and the channel cache holds the id.
AbsentChannelCached ==
    /\ last.op = "resolve"
    /\ last.urls = <<UChanFull>>
    /\ last.results[1].kind = "NoChannel"
    /\ CidKey(parse(UChanFull)) \in DOMAIN channel_cache
    /\ \A d \in index : d.claim_id # channel_cache[CidKey(parse(UChanFull))]

\* C11: session_query('search', kwargs) searches the predicate once; it
\* searches the same predicate a second time, with censor_type=0 added, if and
\* only if the censor marked a hit of the first search; the references are
\* expanded over the hits of both searches merged.
SearchedAgainIffCensored ==
    last.op = "session_search" =>
        /\ last.searches[1] = last.kwargs
        /\ \A i \in 1..Len(last.searches) :
              last.hits[i] \in {s.hits : s \in search(last.searches[i], index)}
        /\ censor_apply(CensorSEARCH, last.hits[1]) # <<>>
              <=> /\ Len(last.searches) = 2
                  /\ last.searches[2]
                        = Append(last.kwargs, [k |-> "censor_type", v |-> VI(0)])
        /\ censor_apply(CensorSEARCH, last.hits[1]) = <<>> => Len(last.searches) = 1
        /\ last.total_referenced = Concat(last.hits)


\* C12: the client start() creates is closed on every exit path: a stop()
\* that returns has closed the client it held, and a start() that fails
\* after creating its client has closed that client.
ClientClosedOnEveryExit ==
    /\ last.op = "stop" /\ last.outcome = "returned" => last.closed \notin client.open
    /\ last.op = "start" /\ last.outcome = "raised" => last.created \notin client.open


\* The clauses of must on the claim id, in their order.
ClaimIdClauses ==
    SelectSeq(last.query.must, LAMBDA c : c.field \in {"claim_id", "claim_id.keyword"})

\* C13 as the specification states it: a scalar claim_id of the full length
\* compiles to an exact term, one of at least half the full length and short
\* of it to a prefix clause, and the empty one to no clause.
ClaimIdPrefixFromHalf ==
    last.op = "expand_query" /\ KwGet(last.kwargs, "claim_id").t = "text" =>
        LET v == KwGet(last.kwargs, "claim_id")
        IN  /\ Len(v.x) = FullIdLen
                => ClaimIdClauses = <<Clause("term", "claim_id.keyword", v, "none")>>
            /\ Len(v.x) >= PartialIdLen /\ Len(v.x) < FullIdLen
                => ClaimIdClauses = <<Clause("prefix", "claim_id", v, "none")>>
            /\ Len(v.x) = 0 => ClaimIdClauses = <<>>

\* C13, amended: a scalar claim_id of at least half the full length (20
\* characters in the program), the full length included, compiles to one
\* exact term on claim_id.keyword; a shorter one, the empty text included, to
\* one prefix clause on claim_id; None to no clause.
ClaimIdPrefixBelowHalf ==
    last.op = "expand_query" /\ KwHas(last.kwargs, "claim_id") =>
        LET v == KwGet(last.kwargs, "claim_id")
        IN  ClaimIdClauses =
                IF v.t = "none" THEN <<>>
                ELSE IF Len(v.x) < PartialIdLen
                THEN <<Clause("prefix", "claim_id", v, "none")>>
                ELSE <<Clause("term", "claim_id.keyword", v, "none")>>

\* A claim id short of the full length, and not of half of it, was compiled to
\* an exact term.
LongPartialIdCompiled ==
    /\ last.op = "expand_query"
    /\ KwGet(last.kwargs, "claim_id").t = "text"
    /\ Len(KwGet(last.kwargs, "claim_id").x) >= PartialIdLen
    /\ Len(KwGet(last.kwargs, "claim_id").x) < FullIdLen
    /\ \E i \in 1..Len(last.query.must) : last.query.must[i].kind = "term"


\* A byte string or None of a binary document, and a text or None of an index
\* document, as values that can be told apart.
BytesValue(b) == IF b = NoneB THEN VNone ELSE [t |-> "bytes", x |-> b]
TextValue(s) == IF s = None THEN VNone ELSE VT(s)
SameValue(v, w) == v.t = w.t /\ v.x = w.x

\* C14: a document written with extract_doc and read back with expand_result
\* has its claim_hash, reposted_claim_hash, channel_hash,
\* censoring_channel_hash and txo_hash, and its signature, signature_digest,
\* public_key_bytes and public_key_hash, as they were, empty and None values
\* included.
CodecRoundTrips ==
    last.op = "codec" =>
        /\ SameValue(BytesValue(last.doc.claim_hash), BytesValue(last.back.claim_hash))
        /\ SameValue(BytesValue(last.doc.reposted_claim_hash),
                     BytesValue(last.back.reposted_claim_hash))
        /\ SameValue(BytesValue(last.doc.channel_hash), BytesValue(last.back.channel_hash))
        /\ SameValue(BytesValue(last.doc.censoring_channel_hash),
                     BytesValue(last.back.censoring_channel_hash))
        /\ SameValue(BytesValue(last.doc.txo_hash), BytesValue(last.back.txo_hash))
        /\ SameValue(BytesValue(last.doc.signature), TextValue(last.back.signature))
        /\ SameValue(BytesValue(last.doc.signature_digest),
                     TextValue(last.back.signature_digest))
        /\ SameValue(BytesValue(last.doc.public_key_bytes),
                     TextValue(last.back.public_key_bytes))
        /\ SameValue(BytesValue(last.doc.public_key_hash),
                     TextValue(last.back.public_key_hash))


\* The updates a block list is to give: one matched on claim_id and, for a
\* list of channels, a second one matched on channel_id; none when it is empty.
ListUpdates(censor_type, blockdict, channels) ==
    IF blockdict = <<>> THEN <<>>
    ELSE <<[censor_type |-> censor_type, key |-> "claim_id", ids |-> HexKeys(blockdict)]>>
         \o (IF channels
             THEN <<[censor_type |-> censor_type, key |-> "channel_id",
                     ids |-> HexKeys(blockdict)]>>
             ELSE <<>>)

\* What an update_by_query of the log matches on and writes.
UpdateOf(c) ==
    [censor_type |-> c.body.script.censor_type, key |-> c.body.script.key,
     ids |-> {c.body.query.must[1].value.x[i] : i \in 1..Len(c.body.query.must[1].value.x)}]

\* C15: apply_filters issues its updates in the order filtered streams,
\* filtered channels, blocked streams, blocked channels, none for an empty
\* list and two for a list of channels (matched on claim_id, then on
\* channel_id), and every update is followed by a refresh of the index before
\* the next call.
UpdatesInOrderEachRefreshed ==
    last.op = "apply_filters" =>
        LET n == Len(last.calls) \div 2
        IN  /\ Len(last.calls) = 2 * n
            /\ \A i \in 1..n : /\ last.calls[2 * i - 1].call = "update_by_query"
                               /\ last.calls[2 * i].call = "refresh"
            /\ [i \in 1..n |-> UpdateOf(last.calls[2 * i - 1])]
                   = ListUpdates(1, last.filtered_streams, FALSE)
                     \o ListUpdates(1, last.filtered_channels, TRUE)
                     \o ListUpdates(2, last.blocked_streams, FALSE)
                     \o ListUpdates(2, last.blocked_channels, TRUE)
            /\ \A i \in 1..n :
                  last.calls[2 * i - 1].body.query.must[1].field
                      = last.calls[2 * i - 1].body.script.key \o ".keyword"

\* apply_filters was given filtered streams, filtered channels and blocked
\* channels, and no blocked streams.
ThreeListsApplied ==
    /\ last.op = "apply_filters"
    /\ last.filtered_streams # <<>> /\ last.filtered_channels # <<>>
    /\ last.blocked_streams = <<>> /\ last.blocked_channels # <<>>
    /\ Len(last.calls) = 10


\* The option a clause of must comes from.
ClauseOption(c) ==
    CASE c.field = "normalized.keyword" -> "name"
      [] c.field \in {"claim_id", "claim_id.keyword"} -> "claim_id"
      [] c.field \in {"signature_digest", "signature_valid"} -> "signature"
      [] OTHER -> c.field
KwIndex(kwargs, key) == CHOOSE i \in 1..Len(kwargs) : kwargs[i].k = key
FromLoop(c) == ClauseOption(c) \in {"name", "claim_id", "claim_type"}

\* C17: the clauses of the compiled query are in the order in which the
\* options were presented (name before claim_type when presented so); an
\* option that asserts is compiled into must, one that excludes into
\* must_not, and should holds nothing but the signature clauses.
ClausesInOptionOrder ==
    last.op = "expand_query" =>
        /\ \A i, j \in 1..Len(last.query.must) :
              i < j /\ FromLoop(last.query.must[i]) /\ FromLoop(last.query.must[j])
                  => KwIndex(last.kwargs, ClauseOption(last.query.must[i]))
                         < KwIndex(last.kwargs, ClauseOption(last.query.must[j]))
        /\ \A i \in 1..Len(last.kwargs) :
              /\ last.kwargs[i].k \in {"name", "claim_type"}
                    => \E c \in Range(last.query.must) : ClauseOption(c) = last.kwargs[i].k
              /\ last.kwargs[i].k = "not_channel_ids"
                    => /\ \E c \in Range(last.query.must_not) : c.field = "channel_id.keyword"
                       /\ \A c \in Range(last.query.must) : c.field # "channel_id.keyword"
        /\ \A c \in Range(last.query.should) : ClauseOption(c) = "signature"
        /\ \A c \in Range(last.query.must_not) : c.field \in {"channel_id.keyword", "_id"}

\* The clauses on signature_valid, in must, must_not and should.
ValidityTerms(clauses) ==
    SelectSeq(clauses, LAMBDA c : c.kind = "term" /\ c.field = "signature_valid")
Requested(kwargs) ==
    <<Clause("term", "signature_valid", VB(PyBool(KwGet(kwargs, "signature_valid"))),
             "none")>>
SignatureExists == Clause("exists", "signature_digest", VNone, "none")
SignatureMissing == Clause("not_exists", "signature_digest", VNone, "none")

\* C18: signature_valid is compiled exactly once.  With has_channel_signature
\* must holds the exists clause on signature_digest and, when signature_valid
\* is given, one term on it, and there is no should group; with
\* signature_valid alone the should group holds the two alternatives with
\* minimum_should_match 1 and must holds no term on signature_valid; with
\* neither there is no should group.  No query holds two terms on
\* signature_valid.
SignatureValidOnce ==
    last.op = "expand_query" =>
        LET q == last.query
            has_sig == PyBool(KwGet(last.kwargs, "has_channel_signature"))
            valid == KwHas(last.kwargs, "signature_valid")
        IN  /\ has_sig => /\ SignatureExists \in Range(q.must)
                          /\ ValidityTerms(q.must)
                                 = IF valid THEN Requested(last.kwargs) ELSE <<>>
                          /\ q.should = <<>> /\ q.minimum_should_match = 0
            /\ ~has_sig /\ valid => /\ q.should = <<SignatureMissing>> \o Requested(last.kwargs)
                                    /\ q.minimum_should_match = 1
                                    /\ ValidityTerms(q.must) = <<>>
            /\ ~has_sig /\ ~valid => q.should = <<>> /\ ValidityTerms(q.must) = <<>>
            /\ Len(ValidityTerms(q.must)) + Len(ValidityTerms(q.should))
                   + Len(ValidityTerms(q.must_not)) <= 1

\* A query was compiled from has_channel_signature and signature_valid both.
BothSignatureOptions ==
    /\ last.op = "expand_query"
    /\ PyBool(KwGet(last.kwargs, "has_channel_signature"))
    /\ KwHas(last.kwargs, "signature_valid")
    /\ Len(ValidityTerms(last.query.must)) = 1

\* C19: a stream returned for a URL with a channel and a stream segment is in
\* the channel the URL resolved to (its channel_id is the id the channel cache
\* holds for the channel segment) and its signature is valid, also when the
\* stream segment carries a full claim id.
StreamOfUrlSignedByChannel ==
    last.op = "session_resolve" =>
        \A i \in 1..Len(last.urls) :
            LET url == parse(last.urls[i])
            IN  url.ok /\ has_channel(url) /\ has_stream(url) /\ last.results[i].kind = "doc"
                    => /\ CidKey(url) \in DOMAIN channel_cache
                       /\ last.results[i].doc.channel_id = channel_cache[CidKey(url)]
                       /\ last.results[i].doc.signature_valid

\* What resolve_stream does ensure: the stream returned for a URL with both
\* segments carries the claim id the stream segment names when that id is a
\* full one, and otherwise belongs to the resolved channel with a valid
\* signature.
StreamOfUrlSignedUnlessFullId ==
    last.op = "session_resolve" =>
        \A i \in 1..Len(last.urls) :
            LET url == parse(last.urls[i])
            IN  url.ok /\ has_channel(url) /\ has_stream(url) /\ last.results[i].kind = "doc"
                    => IF url.stream.claim_id # None /\ Len(url.stream.claim_id) = FullIdLen
                       THEN last.results[i].doc.claim_id = url.stream.claim_id
                       ELSE /\ CidKey(url) \in DOMAIN channel_cache
                            /\ last.results[i].doc.channel_id = channel_cache[CidKey(url)]
                            /\ last.results[i].doc.signature_valid


\* The entries of a queue that the bulk stream applied as upserts and no later
\* entry applied a delete of.
AppliedUpserts(queue, failed) ==
    {i \in 1..Len(queue) :
        /\ queue[i].op = "update" /\ i \notin failed
        /\ ~\E j \in (i + 1)..Len(queue) :
               /\ j \notin failed
               /\ IF queue[j].op = "delete" THEN queue[j].id = claim_id(queue[i].doc.claim_hash)
                  ELSE queue[j].doc.claim_hash = queue[i].doc.claim_hash}

\* The calls of a sync_queue that returned are refresh, the bulk stream with
\* one action for each entry of the queue in its order (a delete for a
\* 'delete' entry, a doc-as-upsert otherwise), refresh, flush, and only then
\* the clearing of the caches.
SyncCallsInOrder ==
    last.op = "sync_queue" =>
        /\ [i \in 1..Len(last.calls) |-> last.calls[i].call]
               = <<"refresh", "bulk", "refresh", "flush", "clear">>
        /\ LET actions == last.calls[2].body.actions
           IN  /\ Len(actions) = Len(last.queue)
               /\ \A i \in 1..Len(actions) :
                     IF last.queue[i].op = "delete"
                     THEN actions[i].op_type = "delete" /\ actions[i].id = last.queue[i].id
                     ELSE /\ actions[i].op_type = "update" /\ actions[i].doc_as_upsert
                          /\ actions[i].id = claim_id(last.queue[i].doc.claim_hash)
                          /\ actions[i].doc = extract_doc(last.queue[i].doc, IndexName).doc

\* Once sync_queue has returned, and until the next bulk stream, the index
\* holds every upsert the stream applied.
UpsertsSeenAfterSync ==
    last.op = "sync_queue" /\ tasks.writer.pc \in {"idle", "bulk"} =>
        \A i \in AppliedUpserts(last.queue, last.failed) :
            extract_doc(last.queue[i].doc, IndexName).doc \in index

\* C16: sync_queue refreshes, streams the bulk actions (one for each queue
\* entry, in order), refreshes, flushes, and only then clears the caches; a
\* failed bulk item does not abort the stream; a query after sync_queue sees
\* every upsert that was applied.
SyncQueueProtocol ==
    /\ SyncCallsInOrder
    /\ last.op # "sync_queue_raised"
    /\ UpsertsSeenAfterSync


\* C20: get_many returns a document for every id asked for that was in the
\* cache when it was called or that mget found, in the order of the ids, and
\* asks mget for the ids missing from the cache only; this under every
\* interleaving with sync_queue, which may clear the cache while mget is
\* awaited.
GetManyReturnsCachedAndFound ==
    last.op = "get_many" =>
        /\ [i \in 1..Len(last.result) |-> last.result[i].claim_id]
               = SelectSeq(last.claim_ids, LAMBDA id : id \in last.cached \cup last.found)
        /\ last.asked = SelectSeq(last.claim_ids, LAMBDA id : id \notin last.cached)


\* The claim ids of the chain.
ClaimIds == {claim_id(c.claim_hash) : c \in Chain}

\* C21: the keys of the stream cache never alias.  A key that is a claim id
\* holds the document of that claim, so get_many(id) returns only documents
\* whose claim_id is id; the channel returned for a URL without a stream
\* segment is the claim held under the resolved channel id.
CacheKeysNeverAlias ==
    /\ \A key \in DOMAIN search_cache :
          key \in ClaimIds => search_cache[key].claim_id = key
    /\ last.op = "resolve" =>
          \A i \in 1..Len(last.urls) :
              LET url == parse(last.urls[i])
              IN  url.ok /\ has_channel(url) /\ ~has_stream(url) /\ last.results[i].kind = "doc"
                      => last.results[i].doc.claim_id = channel_cache[CidKey(url)]


\* The documents of the index as the resolver decodes them.
IndexedRows == {expand_one(d) : d \in index}

\* C22: with resolve tasks running beside sync_queue, once a sync_queue has
\* completed and nothing was written since, no task puts into the cache a
\* document that it read from the index before the writes of that sync_queue:
\* what a resuming resolve leaves in the cache is what the index holds.
NoStaleInsertAfterClear ==
    [][(/\ last.op = "sync_queue" /\ tasks.writer.pc = "idle"
        /\ tasks.reader.pc = "answered" /\ tasks'.reader.pc = "idle")
           => \A key \in DOMAIN search_cache' : search_cache'[key] \in IndexedRows']_vars


\* The offset option of the caller, 0 when absent.
OffsetOption(kwargs) == IF KwHas(kwargs, "offset") THEN KwGet(kwargs, "offset").x ELSE 0

\* The totals the backend may give for kwargs: of the compiled query, with a
\* 'channel' option of the query on the channel_id of a claim of the index.
BackendTotals(kwargs) ==
    IF KwHas(kwargs, "channel")
    THEN {BackendTotal(index, expand_query(KwSet(KwPop(kwargs, "channel"), "channel_id",
                                                 VT(d.claim_id)))) : d \in index}
    ELSE {BackendTotal(index, expand_query(kwargs))}

\* C23: session_query 'search' hands the serializer the offset option of the
\* caller (0 when absent) and the hit total of the backend; with the index
\* not there it hands over the empty page ([], 0, 0).
SearchPageOffsetAndTotal ==
    last.op = "session_query" /\ last.error = "none" =>
        IF last.available
        THEN /\ last.offset = OffsetOption(last.kwargs)
             /\ \/ last.total \in BackendTotals(last.kwargs)
                \/ KwHas(last.kwargs, "channel") /\ last.response = <<>> /\ last.total = 0
        ELSE last.response = <<>> /\ last.offset = 0 /\ last.total = 0


=============================================================================
